---- MODULE Spec2Model ----
(***************************************************************************)
(* rhttp: the Client -> Request -> Result call chain and its typed errors. *)
(*                                                                         *)
(* The repository carries the chain in two variants that differ in        *)
(* Prepare and in the terminal operations:                                 *)
(*   "request"  the unexported builder (request / result), whose Prepare   *)
(*              stores the callback unconditionally and which has no       *)
(*              StreamResponse;                                            *)
(*   "Request"  the exported builder (Request / Result), whose Prepare     *)
(*              returns nil on a failed request and whose RawBytes is      *)
(*              built on StreamResponse.                                   *)
(* The variable `variant` fixes which of the two a behaviour runs.         *)
(***************************************************************************)
EXTENDS Integers, Sequences, FiniteSets, TLC

VARIABLES
    variant,        \* which builder variant the behaviour runs
    ci,             \* Client.ci: the client's inner transport
    lazyInits,      \* how often lazyInitialize assigned the default transport
    handle,         \* the *Request the caller holds: "none", "req" or "nil"
    req,            \* the Request object (fields ci, err, method, u, reqbody, prepareCB)
    res,            \* the Result object (fields response, err), once Do() ran
    resp,           \* the http.Response the transport produced (StatusCode, Body)
    ret,            \* what the last terminal operation returned
    dest,           \* the caller's decode destination
    sink,           \* the caller's destination writer
    sent,           \* the outgoing request the transport received
    answered,       \* what the transport answered: "none" while it was not called
    transportCalls, \* calls of the transport's Do in the current chain
    cbCalls,        \* calls of the prepare callback in the current chain
    firstFail,      \* the first error raised in the current chain
    panicked,       \* a nil-pointer dereference unwound the chain
    lastBody,       \* the body the last successful body-shaping call was given
    bodySets,       \* successful body-shaping calls of the chain: 0, 1, 2 for more
    cbSeen,         \* the outgoing request the prepare callback received
    doSteps,        \* the steps Do() ran, in the order it ran them
    threads,        \* the goroutines that share the Client (concurrent first use)
    calc            \* the last call of a method of Error: its arguments and result

vars == << variant, ci, lazyInits, handle, req, res, resp, ret, dest, sink, sent,
           answered, transportCalls, cbCalls, firstFail, panicked,
           lastBody, bodySets, cbSeen, doSteps, threads, calc >>

----------------------------------------------------------------------------
(* Bounds *)

\* The largest integer a payload's Val1 takes.
MaxVal1 == 1

Min(a, b) == IF a < b THEN a ELSE b
Max(a, b) == IF a > b THEN a ELSE b

----------------------------------------------------------------------------
(* net/http constants used by the package *)

StatusOK == 200
StatusBadRequest == 400
StatusUnauthorized == 401
StatusForbidden == 403
StatusNotFound == 404
StatusConflict == 409
StatusInternalServerError == 500
StatusNotImplemented == 501
StatusServiceUnavailable == 503

\* http.StatusText for the codes the model uses; "" for an unregistered code.
StatusText(code) ==
    CASE code = 200 -> "OK"
      [] code = 400 -> "Bad Request"
      [] code = 401 -> "Unauthorized"
      [] code = 403 -> "Forbidden"
      [] code = 404 -> "Not Found"
      [] code = 409 -> "Conflict"
      [] code = 500 -> "Internal Server Error"
      [] code = 501 -> "Not Implemented"
      [] code = 503 -> "Service Unavailable"
      [] OTHER -> ""

----------------------------------------------------------------------------
(* URLs *)

\* A *url.URL, by the fields the chain reads.
GoodURL == [Scheme |-> "http", Host |-> "test.test.test", Path |-> "/x"]
\* A host with a space: String() escapes it to %20, which url.Parse rejects.
BadURL == [Scheme |-> "http", Host |-> "bad host", Path |-> "/x"]
ZeroURL == [Scheme |-> "", Host |-> "", Path |-> ""]
URLs == {GoodURL, BadURL}


\* (*url.URL).String(): the host is escaped, so a space becomes %20.
EscapeHost(h) == IF h = "bad host" THEN "bad%20host" ELSE h
URLString(u) ==
    IF u = ZeroURL THEN ""
    ELSE u.Scheme \o "://" \o EscapeHost(u.Host) \o u.Path

\* url.Parse as http.NewRequest applies it to the string form: an escape
\* other than %25 in the host is rejected.
URLParseOK(s) == s # "http://bad%20host/x"

----------------------------------------------------------------------------
(* Methods *)

MethodGet == "GET"
MethodHead == "HEAD"
MethodPost == "POST"
MethodPut == "PUT"
MethodPatch == "PATCH"
MethodDelete == "DELETE"
UserMethod == "USER_SPECIFIED_REQUEST_METHOD"
\* A method string that is no HTTP token (it holds a space).
BadMethod == "BAD METHOD"

Verbs == {MethodGet, MethodHead, MethodPost, MethodPut, MethodPatch, MethodDelete}
\* The method strings NewRequest is called with: a token of the caller's, a
\* string that is no token, and the empty string.
EmptyMethod == ""
CallerMethods == {UserMethod, BadMethod, EmptyMethod}

\* net/http validMethod: a non-empty string of token characters.
ValidMethod(m) == m \in Verbs \cup {UserMethod}

----------------------------------------------------------------------------
(* Errors *)

\* An error value is the chain of its frames, outermost first; each fmt.Errorf
\* with %w puts one frame in front of its cause. The nil error is the empty chain.
NilErr == << >>

ErrFrame(kind, method, url, status, message) ==
    [kind |-> kind, method |-> method, url |-> url,
     StatusCode |-> status, Message |-> message]

\* An error of a collaborator (encoding/json, net/http, the transport, the
\* callback, the body reader): a chain of one frame.
LeafErr(kind) == << ErrFrame(kind, "", "", 0, << >>) >>

\* fmt.Errorf("... for '%s %s': %w", method, url, cause)
Wrapf(kind, method, url, cause) == << ErrFrame(kind, method, url, 0, << >>) >> \o cause

\* errors.Unwrap, repeated: the innermost cause.
Cause(err) == IF err = NilErr THEN NilErr ELSE << err[Len(err)] >>

\* A message is the sequence of the runs of text it is made of; the empty
\* string is the empty sequence.
Msg(text) == IF text = "" THEN << >> ELSE << text >>

\* NewError creates an *Error with the provided status code and message.
NewError(status, message) == << ErrFrame("Error", "", "", status, message) >>

\* newGenericError with the message left empty.
newGenericError_NoMessage(statusCode) == NewError(statusCode, << >>)

\* newGenericError: the message is http.StatusText of the code.
newGenericError(statusCode) == NewError(statusCode, Msg(StatusText(statusCode)))

ErrBadRequest == newGenericError(StatusBadRequest)
ErrUnauthorized == newGenericError(StatusUnauthorized)
ErrForbidden == newGenericError(StatusForbidden)
ErrNotFound == newGenericError(StatusNotFound)
ErrConflict == newGenericError(StatusConflict)
ErrInternalServer == newGenericError(StatusInternalServerError)
ErrServiceUnavailable == newGenericError(StatusServiceUnavailable)
ErrNotImplemented == newGenericError(StatusNotImplemented)

\* A nil *Error held in an error value: the value is not nil, its pointer is.
NilTypedError == << ErrFrame("(*Error)(nil)", "", "", 0, << >>) >>

\* err.(*Error) yields a non-nil *Error: the dynamic type of the error value
\* itself, no unwrapping.
IsTypedError(err) == err # NilErr /\ err[1].kind = "Error"

\* Is comparing the messages too.
Is_ComparesMessage(e, err) == IsTypedError(err) /\ err[1] = e[1]

\* (e *Error) Is(err): err is a non-nil *Error with the same status code.
Is(e, err) == IsTypedError(err) /\ err[1].StatusCode = e[1].StatusCode

\* HasStatusCode comparing the class of the codes (4xx, 5xx) only.
HasStatusCode_SameClass(e, statusCode) == e[1].StatusCode \div 100 = statusCode \div 100

\* (e *Error) HasStatusCode(statusCode)
HasStatusCode(e, statusCode) == e[1].StatusCode = statusCode

\* (e *Error) New(message): the *Error it returns.
New(e, message) == NewError(e[1].StatusCode, message)

\* An argument of a format: an int or a string.
IntArg(i) == [kind |-> "int", i |-> i, s |-> ""]
StringArg(str) == [kind |-> "string", i |-> 0, s |-> str]

\* fmt's rendering of one verb (%d or %s) with the argument a.
FormatArg(verb, a) ==
    CASE verb = "%d" /\ a.kind = "int" -> ToString(a.i)
      [] verb = "%s" /\ a.kind = "string" -> a.s
      [] verb = "%d" /\ a.kind = "string" -> "%!d(string=" \o a.s \o ")"
      [] verb = "%s" /\ a.kind = "int" -> "%!s(int=" \o ToString(a.i) \o ")"

\* fmt's rendering of the operands no verb consumed: type=value, separated
\* by a comma and a space.
RECURSIVE ExtraArgs(_)
ExtraArgs(args) ==
    LET a == Head(args)
        one == IF a.kind = "int" THEN "int=" \o ToString(a.i) ELSE "string=" \o a.s
    IN IF Len(args) = 1 THEN one ELSE one \o ", " \o ExtraArgs(Tail(args))

\* fmt.Sprintf(format, args...): the format is the sequence of its literal
\* runs and verbs; a verb without an argument renders as MISSING, and the
\* arguments left over at the end of the format are appended as EXTRA.
RECURSIVE Sprintf(_, _)
Sprintf(format, args) ==
    IF format = << >>
    THEN IF args = << >> THEN "" ELSE "%!(EXTRA " \o ExtraArgs(args) \o ")"
    ELSE IF Head(format) \in {"%d", "%s"}
    THEN IF args = << >>
         THEN "%!" \o SubSeq(Head(format), 2, 2) \o "(MISSING)"
                  \o Sprintf(Tail(format), args)
         ELSE FormatArg(Head(format), Head(args)) \o Sprintf(Tail(format), Tail(args))
    ELSE Head(format) \o Sprintf(Tail(format), args)

\* (e *Error) Newf(format, args...): the *Error it returns.
Newf(e, format, args) == NewError(e[1].StatusCode, Msg(Sprintf(format, args)))

\* The package-defined generic errors, in the order they are declared.
Catalogue ==
    << ErrBadRequest, ErrUnauthorized, ErrForbidden, ErrNotFound, ErrConflict,
       ErrInternalServer, ErrServiceUnavailable, ErrNotImplemented >>

----------------------------------------------------------------------------
(* Bodies and JSON *)

\* A body is a sequence of tokens (runs of bytes).
NilBody == [present |-> FALSE, data |-> << >>]
BodyOf(data) == [present |-> TRUE, data |-> data]

\* The values handed to EncodeJSON: the test payload struct {Val1 int; Val2
\* string}, with a Val2 of valid UTF-8 or of one byte that is not (0xFF), and
\* a value whose MarshalJSON fails.
Payload(v1, v2) == [kind |-> "payload", Val1 |-> v1, Val2 |-> v2]
ZeroPayload == Payload(0, "")
Unencodable == [kind |-> "unencodable", Val1 |-> 0, Val2 |-> ""]
Payloads == { Payload(v1, v2) : v1 \in 0..MaxVal1, v2 \in {"", "a"} }

\* A string of the single byte 0xFF, which is not UTF-8, and the string of the
\* replacement character U+FFFD.
InvalidUTF8 == "<0xFF>"
ReplacementChar == "<U+FFFD>"
ValidUTF8(str) == str # InvalidUTF8
InvalidUTF8Payload == Payload(0, InvalidUTF8)

EncodeValues == Payloads \cup {InvalidUTF8Payload, Unencodable}

\* encoding/json's encoding of a string: the text between quotes; a byte that
\* is not UTF-8 is written as the escape \ufffd.
QuoteString(str) ==
    IF ValidUTF8(str) THEN "\"" \o str \o "\"" ELSE "\"\\ufffd\""

\* json.Marshal of a payload: the object's tokens.
MarshalTokens(v) ==
    << "{", "\"Val1\"", ":", ToString(v.Val1), ",",
       "\"Val2\"", ":", QuoteString(v.Val2), "}" >>

\* json.NewEncoder(&buf).Encode(v): the marshalled value and a newline, or the
\* marshaller's error.
\* A failing MarshalJSON surfaces as a *json.MarshalerError around the
\* marshaller's own error (errUnencodable in the tests).
EncodeErr(v) ==
    IF v.kind = "unencodable"
    THEN LeafErr("json.MarshalerError") \o LeafErr("errUnencodable")
    ELSE NilErr
EncodeBuf(v) == IF v.kind = "unencodable" THEN << >> ELSE MarshalTokens(v) \o << "\n" >>

----------------------------------------------------------------------------
(* Client and Request *)

Variants == {"request", "Request"}

\* The goroutines that may share one Client.
NumThreads == 2
Threads == 1..NumThreads

\* &http.Client{}: a fresh instance at every evaluation; k numbers the
\* instances in the order they are created.
DefaultTransport(k) == "default" \o ToString(k)

\* The inner transports: none, a lazily created &http.Client{}, or one the
\* caller handed to NewClient.
Transports == {"nil", "mock"} \cup { DefaultTransport(k) : k \in 1..NumThreads }

\* The callbacks handed to Prepare: none (a nil func), one that returns nil,
\* one that returns an error.
Callbacks == {"nil", "ok", "fail"}

\* The bodies handed to WithRequestBody: nil, or a reader over some bytes.
RequestBodies == {NilBody, BodyOf(<< "text payload" >>)}

\* makeRequest leaving the Request without its transport.
makeRequest_Unbound(c, method, u) ==
    [ci |-> "nil", err |-> NilErr, method |-> method, u |-> u,
     reqbody |-> NilBody, prepareCB |-> "nil"]

\* makeRequest is a convenience function for instantiating a *Request.
makeRequest(c, method, u) ==
    [ci |-> c, err |-> NilErr, method |-> method, u |-> u,
     reqbody |-> NilBody, prepareCB |-> "nil"]

NoRequest == makeRequest("nil", "", ZeroURL)

\* NewClient vends a *Client around the given transport; &Client{} has none.
NewClient(c) == c

\* lazyInitialize without the test: a new instance replaces whatever is set.
lazyInitialize_Always(c, n) == DefaultTransport(Min(n + 1, NumThreads))

\* lazyInitialize that sets nothing.
lazyInitialize_Never(c, n) == c

\* lazyInitialize: a generic http.Client is set if no transport is set already;
\* n counts the instances created before the call.
lazyInitialize(c, n) == IF c = "nil" THEN DefaultTransport(n + 1) ELSE c

\* WithRequestBody clearing the stored error.
WithRequestBodyReq_ClearsErr(r, reqbody) == [r EXCEPT !.reqbody = reqbody, !.err = NilErr]

\* WithRequestBody keeping a body that is already set.
WithRequestBodyReq_KeepsFirst(r, reqbody) ==
    IF r.err # NilErr THEN r
    ELSE IF r.reqbody # NilBody THEN r
    ELSE [r EXCEPT !.reqbody = reqbody]

\* WithRequestBody: the Request after the call.
WithRequestBodyReq(r, reqbody) ==
    IF r.err # NilErr THEN r
    ELSE [r EXCEPT !.reqbody = reqbody]

\* EncodeJSON encoding the value without setting it as the body.
EncodeJSONReq_BodyNotSet(r, v) ==
    IF r.err # NilErr THEN r
    ELSE IF EncodeErr(v) # NilErr
         THEN [r EXCEPT !.err = Wrapf("failed to encode body", r.method,
                                      URLString(r.u), EncodeErr(v))]
         ELSE r

\* EncodeJSON dropping the body when the encoder fails.
EncodeJSONReq_ClearsBody(r, v) ==
    IF r.err # NilErr THEN r
    ELSE IF EncodeErr(v) # NilErr
         THEN [r EXCEPT !.err = Wrapf("failed to encode body", r.method,
                                      URLString(r.u), EncodeErr(v)),
                        !.reqbody = NilBody]
         ELSE [r EXCEPT !.reqbody = BodyOf(EncodeBuf(v))]

\* EncodeJSON: the Request after the call.
EncodeJSONReq(r, v) ==
    IF r.err # NilErr THEN r
    ELSE IF EncodeErr(v) # NilErr
         THEN [r EXCEPT !.err = Wrapf("failed to encode body", r.method,
                                      URLString(r.u), EncodeErr(v))]
         ELSE [r EXCEPT !.reqbody = BodyOf(EncodeBuf(v))]

\* Prepare of the unexported builder: the callback is stored whatever err is.
PrepareReq_request(r, prepareCB) == [r EXCEPT !.prepareCB = prepareCB]
PrepareHandle_request(r) == "req"

\* Prepare of the exported builder: a failed Request is left alone and nil is
\* returned in its place.
PrepareReq_Request(r, prepareCB) ==
    IF r.err # NilErr THEN r
    ELSE [r EXCEPT !.prepareCB = prepareCB]
PrepareHandle_Request(r) == IF r.err # NilErr THEN "nil" ELSE "req"

----------------------------------------------------------------------------
(* The state after construction *)

NoBodyState == [data |-> << >>, pos |-> 0, closed |-> FALSE, failAt |-> -1]
NoResponse == [StatusCode |-> 0, Body |-> NoBodyState]
NoResult == [made |-> FALSE, response |-> FALSE, err |-> NilErr, request |-> NoRequest]
NoReturn == [op |-> "none", response |-> FALSE, bytes |-> NilBody,
             err |-> NilErr, nilDest |-> FALSE]
NoSent == [made |-> FALSE, Method |-> "", URL |-> "", Body |-> NilBody]

\* A goroutine's position in its request-creating call: pc is "idle" before
\* the call, "checked" after the test c.ci == nil, "assigned" after the
\* assignment, "done" once makeRequest returned; sawNil is what the test
\* found, assigned the number of the instance the goroutine stored (0 when it
\* stored none), req the Request it got.
IdleThread == [pc |-> "idle", sawNil |-> FALSE, assigned |-> 0, req |-> NoRequest]
NoThreads == [t \in Threads |-> IdleThread]

\* A call of a method of Error: the receiver e and the argument (o, code, or
\* message, or format and args), the boolean a predicate returned, and, for
\* New and Newf, the *Error objects in memory after the call (heap, by
\* address), the address of the receiver and the address returned.
NoCalc ==
    [op |-> "none", e |-> NilErr, o |-> NilErr, code |-> 0, holds |-> FALSE,
     message |-> << >>, format |-> << >>, args |-> << >>,
     heap |-> << >>, recv |-> 0, out |-> 0]

\* What a request-creating call leaves of an earlier chain: nothing.
FreshChain ==
    /\ res' = NoResult
    /\ resp' = NoResponse
    /\ ret' = NoReturn
    /\ dest' = ZeroPayload
    /\ sink' = << >>
    /\ sent' = NoSent
    /\ answered' = "none"
    /\ transportCalls' = 0
    /\ cbCalls' = 0
    /\ firstFail' = NilErr
    /\ lastBody' = NilBody
    /\ bodySets' = 0
    /\ cbSeen' = NoSent
    /\ doSteps' = << >>

Init ==
    /\ variant \in Variants
    /\ ci \in {NewClient("nil"), NewClient("mock")}
    /\ lazyInits = 0
    /\ handle = "none"
    /\ req = NoRequest
    /\ res = NoResult
    /\ resp = NoResponse
    /\ ret = NoReturn
    /\ dest = ZeroPayload
    /\ sink = << >>
    /\ sent = NoSent
    /\ answered = "none"
    /\ transportCalls = 0
    /\ cbCalls = 0
    /\ firstFail = NilErr
    /\ panicked = FALSE
    /\ lastBody = NilBody
    /\ bodySets = 0
    /\ cbSeen = NoSent
    /\ doSteps = << >>
    /\ threads = NoThreads
    /\ calc = NoCalc

\* The first error of the chain, once err is raised.
NoteFailure(err) == IF firstFail = NilErr THEN err ELSE firstFail

----------------------------------------------------------------------------
(* Request-creating calls *)

\* NewRequest runs lazyInitialize and binds the Request to the client's transport.
\* A request-creating call leaves nothing of the chain before it, so a chain
\* begun after Do() starts in the same state as one begun before it; the
\* model takes request-creating calls before Do() only.
NewRequest(method, u) ==
    /\ ~panicked
    /\ ~res.made
    /\ ci' = lazyInitialize(ci, lazyInits)
    /\ lazyInits' = IF ci' # ci THEN lazyInits + 1 ELSE lazyInits
    /\ req' = makeRequest(ci', method, u)
    /\ handle' = "req"
    /\ FreshChain
    /\ UNCHANGED << variant, panicked, threads, calc >>

GET == \E u \in URLs : NewRequest(MethodGet, u)
HEAD == \E u \in URLs : NewRequest(MethodHead, u)
POST == \E u \in URLs : NewRequest(MethodPost, u)
PUT == \E u \in URLs : NewRequest(MethodPut, u)
PATCH == \E u \in URLs : NewRequest(MethodPatch, u)
DELETE == \E u \in URLs : NewRequest(MethodDelete, u)
NewRequestCall == \E m \in CallerMethods, u \in URLs : NewRequest(m, u)

----------------------------------------------------------------------------
(* Builder calls *)

\* A builder call is made on the handle the previous call of the chain returned.
CanBuild ==
    /\ ~panicked
    /\ handle # "none"
    /\ ~res.made

\* A method called on a nil *Request dereferences it.
NilReceiver ==
    /\ handle = "nil"
    /\ panicked' = TRUE
    /\ UNCHANGED << variant, ci, lazyInits, handle, req, res, resp, ret, dest, sink,
                    sent, answered, transportCalls, cbCalls, firstFail,
                    lastBody, bodySets, cbSeen, doSteps, threads, calc >>

BuilderFrame ==
    UNCHANGED << variant, ci, lazyInits, res, resp, ret, dest, sink, sent, answered,
                 transportCalls, cbCalls, panicked, cbSeen, doSteps, threads, calc >>

WithRequestBody ==
    /\ CanBuild
    /\ \/ NilReceiver
       \/ /\ handle = "req"
          /\ \E reqbody \in RequestBodies :
                /\ req' = WithRequestBodyReq(req, reqbody)
                /\ lastBody' = IF req.err = NilErr THEN reqbody ELSE lastBody
                /\ bodySets' = IF req.err = NilErr THEN Min(bodySets + 1, 2) ELSE bodySets
          /\ handle' = "req"
          /\ UNCHANGED firstFail
          /\ BuilderFrame

EncodeJSON ==
    /\ CanBuild
    /\ \/ NilReceiver
       \/ /\ handle = "req"
          /\ \E v \in EncodeValues :
                /\ req' = EncodeJSONReq(req, v)
                /\ lastBody' = IF req.err = NilErr /\ EncodeErr(v) = NilErr
                               THEN BodyOf(EncodeBuf(v)) ELSE lastBody
                /\ bodySets' = IF req.err = NilErr /\ EncodeErr(v) = NilErr
                               THEN Min(bodySets + 1, 2) ELSE bodySets
          /\ handle' = "req"
          /\ firstFail' = IF req'.err # req.err THEN NoteFailure(req'.err) ELSE firstFail
          /\ BuilderFrame

Prepare ==
    /\ CanBuild
    /\ \/ NilReceiver
       \/ /\ handle = "req"
          /\ variant = "request"
          /\ \E cb \in Callbacks : req' = PrepareReq_request(req, cb)
          /\ handle' = PrepareHandle_request(req)
          /\ UNCHANGED << firstFail, lastBody, bodySets >>
          /\ BuilderFrame
       \/ /\ handle = "req"
          /\ variant = "Request"
          /\ \E cb \in Callbacks : req' = PrepareReq_Request(req, cb)
          /\ handle' = PrepareHandle_Request(req)
          /\ UNCHANGED << firstFail, lastBody, bodySets >>
          /\ BuilderFrame

----------------------------------------------------------------------------
(* Do *)

\* What the transport's Do answers: a response, an error, or (a test double
\* only) neither.
Outcome(kind, status, data, failAt) ==
    [kind |-> kind, StatusCode |-> status, data |-> data, failAt |-> failAt]

TextBody == << "text payload" >>
JSONBody == MarshalTokens(Payload(1, "a"))
\* {"a": 1 with the closing brace cut off.
TruncatedJSONBody == << "{", "\"a\"", ":", "1" >>
\* {"Val1":1,"Val2":"a"} with other bytes behind the closing brace.
TrailingJSONBody == JSONBody \o << "x" >>

ResponseOutcomes ==
    { Outcome("resp", StatusOK, << >>, -1),
      Outcome("resp", StatusOK, TextBody, -1),
      Outcome("resp", StatusOK, JSONBody, -1),
      Outcome("resp", StatusOK, TruncatedJSONBody, -1),
      Outcome("resp", StatusOK, TrailingJSONBody, -1),
      Outcome("resp", StatusOK, TextBody, 0),
      Outcome("resp", StatusOK, JSONBody, 1),
      Outcome("resp", StatusBadRequest - 1, TextBody, -1),
      Outcome("resp", StatusBadRequest, << StatusText(StatusBadRequest) >>, -1),
      Outcome("resp", StatusBadRequest, << >>, -1),
      Outcome("resp", StatusBadRequest, JSONBody, -1),
      Outcome("resp", StatusBadRequest, JSONBody, 1),
      Outcome("resp", StatusInternalServerError,
              << StatusText(StatusInternalServerError) >>, -1) }

ErrOutcome == Outcome("err", 0, << >>, -1)
NilOutcome == Outcome("nil", 0, << >>, -1)

\* A real http.Client answers with a response or an error; a test double may
\* also answer (nil, nil).
TransportOutcomes(c) ==
    IF c = "mock"
    THEN ResponseOutcomes \cup {ErrOutcome, NilOutcome}
    ELSE ResponseOutcomes \cup {ErrOutcome}

\* A transport that answers 200 with the body it was sent.
EchoOutcome(r) == Outcome("resp", StatusOK, r.reqbody.data, -1)

\* http.NewRequest takes the empty method for GET.
RequestMethod(method) == IF method = "" THEN MethodGet ELSE method

\* http.NewRequest(method, urlstr, body): the method is validated, then the
\* url is parsed.
newHTTPRequestErr(method, urlstr) ==
    IF ~ValidMethod(RequestMethod(method)) THEN LeafErr("net/http: invalid method")
    ELSE IF ~URLParseOK(urlstr) THEN LeafErr("url.Parse")
    ELSE NilErr

\* OutgoingRequest with the method fixed to GET.
OutgoingRequest_AlwaysGet(r) ==
    [made |-> TRUE, Method |-> MethodGet, URL |-> URLString(r.u), Body |-> r.reqbody]

\* The *http.Request Do() builds.
OutgoingRequest(r) ==
    [made |-> TRUE, Method |-> RequestMethod(r.method), URL |-> URLString(r.u),
     Body |-> r.reqbody]

\* The prepare callback's answer.
CallbackErr(cb) == IF cb = "fail" THEN LeafErr("callback error") ELSE NilErr

\* DoStage without the check of the stored error.
DoStage_IgnoresStoredErr(r) ==
    IF newHTTPRequestErr(r.method, URLString(r.u)) # NilErr THEN "construct"
    ELSE IF r.prepareCB # "nil" /\ CallbackErr(r.prepareCB) # NilErr THEN "callback"
    ELSE "dispatch"

\* DoStage with the prepare callback run before http.NewRequest.
DoStage_CallbackBeforeConstruct(r) ==
    IF r.err # NilErr THEN "firstError"
    ELSE IF r.prepareCB # "nil" /\ CallbackErr(r.prepareCB) # NilErr THEN "callback"
    ELSE IF newHTTPRequestErr(r.method, URLString(r.u)) # NilErr THEN "construct"
    ELSE "dispatch"

\* The step at which Do() returns: on the stored error, on a failed
\* construction, on a failed callback, or after the transport call.
DoStage(r) ==
    IF r.err # NilErr THEN "firstError"
    ELSE IF newHTTPRequestErr(r.method, URLString(r.u)) # NilErr THEN "construct"
    ELSE IF r.prepareCB # "nil" /\ CallbackErr(r.prepareCB) # NilErr THEN "callback"
    ELSE "dispatch"

\* DoCallsTransport with the transport called although the callback failed.
DoCallsTransport_DespiteCallbackErr(r) == DoStage(r) \in {"callback", "dispatch"}

\* DoCallsCallback with the callback run although http.NewRequest failed.
DoCallsCallback_DespiteConstructErr(r) == r.err = NilErr /\ r.prepareCB # "nil"

\* Whether Do() calls the prepare callback, and the transport.
DoCallsCallback(r) == DoStage(r) \in {"callback", "dispatch"} /\ r.prepareCB # "nil"
DoCallsTransport(r) == DoStage(r) = "dispatch"

\* The steps of Do() in the order the code runs them: the check of the stored
\* error, http.NewRequest, the prepare callback, the transport's Do.
DoSteps(r) ==
    << "firstError" >>
    \o (IF DoStage(r) # "firstError" THEN << "construct" >> ELSE << >>)
    \o (IF DoCallsCallback(r) THEN << "callback" >> ELSE << >>)
    \o (IF DoCallsTransport(r) THEN << "transport" >> ELSE << >>)

\* DoErr with the callback's error formatted with %v instead of %w: the
\* cause is no longer part of the chain.
DoErr_DropsCallbackCause(r, t) ==
    CASE DoStage(r) = "firstError" -> r.err
      [] DoStage(r) = "construct" ->
            Wrapf("failed to prepare request", r.method, URLString(r.u),
                  newHTTPRequestErr(r.method, URLString(r.u)))
      [] DoStage(r) = "callback" ->
            Wrapf("failed to execute the prepare callback", r.method,
                  URLString(r.u), NilErr)
      [] OTHER ->
            IF t.kind = "err"
            THEN Wrapf("non-protocol request error", r.method, URLString(r.u),
                       LeafErr("transport error"))
            ELSE NilErr

\* DoErr with the transport's error formatted with %v instead of %w: the
\* cause is no longer part of the chain.
DoErr_DropsTransportCause(r, t) ==
    CASE DoStage(r) = "firstError" -> r.err
      [] DoStage(r) = "construct" ->
            Wrapf("failed to prepare request", r.method, URLString(r.u),
                  newHTTPRequestErr(r.method, URLString(r.u)))
      [] DoStage(r) = "callback" ->
            Wrapf("failed to execute the prepare callback", r.method,
                  URLString(r.u), CallbackErr(r.prepareCB))
      [] OTHER ->
            IF t.kind = "err"
            THEN Wrapf("non-protocol request error", r.method, URLString(r.u), NilErr)
            ELSE NilErr

\* Result.err as Do() sets it; t is the transport's answer, read only when
\* the transport is called.
DoErr(r, t) ==
    CASE DoStage(r) = "firstError" -> r.err
      [] DoStage(r) = "construct" ->
            Wrapf("failed to prepare request", r.method, URLString(r.u),
                  newHTTPRequestErr(r.method, URLString(r.u)))
      [] DoStage(r) = "callback" ->
            Wrapf("failed to execute the prepare callback", r.method,
                  URLString(r.u), CallbackErr(r.prepareCB))
      [] OTHER ->
            IF t.kind = "err"
            THEN Wrapf("non-protocol request error", r.method, URLString(r.u),
                       LeafErr("transport error"))
            ELSE NilErr

\* Result.response as Do() sets it: the transport's response, when it gave one
\* and no error.
DoHasResponse(r, t) == DoStage(r) = "dispatch" /\ t.kind = "resp"

\* DoResult with the error of Do() stored in the Request as well.
DoResult_RecordsErrInRequest(r, t) ==
    [made |-> TRUE, response |-> DoHasResponse(r, t), err |-> DoErr(r, t),
     request |-> [r EXCEPT !.err = DoErr(r, t)]]

\* The Result Do() returns: the Request it was called on, whether there is a
\* response, and the error.
DoResult(r, t) ==
    [made |-> TRUE, response |-> DoHasResponse(r, t), err |-> DoErr(r, t),
     request |-> r]

\* The response object the transport hands over.
TransportResponse(r, t) ==
    [StatusCode |-> t.StatusCode,
     Body |-> [data |-> t.data, pos |-> 0, closed |-> FALSE, failAt |-> t.failAt]]

DoFrame ==
    UNCHANGED << variant, ci, lazyInits, handle, req, ret, dest, sink, panicked,
                 lastBody, bodySets, threads, calc >>

Do ==
    /\ ~panicked
    /\ handle # "none"
    /\ ~res.made
    /\ \/ NilReceiver
       \/ /\ handle = "req"
          /\ ~DoCallsTransport(req)
          /\ res' = DoResult(req, NilOutcome)
          /\ cbCalls' = IF DoCallsCallback(req) THEN cbCalls + 1 ELSE cbCalls
          /\ cbSeen' = IF DoCallsCallback(req) THEN OutgoingRequest(req) ELSE NoSent
          /\ doSteps' = DoSteps(req)
          /\ firstFail' = NoteFailure(res'.err)
          /\ UNCHANGED << resp, sent, answered, transportCalls >>
          /\ DoFrame
       \/ /\ handle = "req"
          /\ DoCallsTransport(req)
          /\ \E t \in TransportOutcomes(req.ci) \cup {EchoOutcome(req)} :
                /\ answered' = t.kind
                /\ res' = DoResult(req, t)
                /\ resp' = IF DoHasResponse(req, t)
                           THEN TransportResponse(req, t) ELSE NoResponse
          /\ sent' = OutgoingRequest(req)
          /\ transportCalls' = transportCalls + 1
          /\ cbCalls' = IF DoCallsCallback(req) THEN cbCalls + 1 ELSE cbCalls
          /\ cbSeen' = IF DoCallsCallback(req) THEN OutgoingRequest(req) ELSE NoSent
          /\ doSteps' = DoSteps(req)
          /\ firstFail' = NoteFailure(res'.err)
          /\ DoFrame

----------------------------------------------------------------------------
(* Reading a response body *)

\* The tokens a body still delivers: up to its end, or up to the point its
\* reader fails at.
Avail(b) == IF b.failAt < 0 THEN Len(b.data) ELSE Min(b.failAt, Len(b.data))

\* ioutil.ReadAll / io.Copy: the tokens read, the reader's error, the body after.
ReadAllData(b) == IF b.pos < Avail(b) THEN SubSeq(b.data, b.pos + 1, Avail(b)) ELSE << >>
ReadAllErr(b) == IF b.failAt >= 0 THEN LeafErr("body read error") ELSE NilErr
ReadAllBody(b) == [b EXCEPT !.pos = Max(b.pos, Avail(b))]

\* Body.Close()
CloseBody(b) == [b EXCEPT !.closed = TRUE]

----------------------------------------------------------------------------
(* json.NewDecoder(body).Decode(v) into a *payload *)

Whitespace == {"\n"}
StringToks == {"\"\"", "\"a\"", "\"Val1\"", "\"Val2\"", "\"\\ufffd\""}
NumToks == { ToString(n) : n \in 0..MaxVal1 }

StrVal(tok) ==
    CASE tok = "\"\"" -> ""
      [] tok = "\"a\"" -> "a"
      [] tok = "\"Val1\"" -> "Val1"
      [] tok = "\"Val2\"" -> "Val2"
      [] tok = "\"\\ufffd\"" -> ReplacementChar
NumVal(tok) == CHOOSE n \in 0..MaxVal1 : ToString(n) = tok

\* One member of the object stored into the struct: a field is set when the
\* key names it and the value has its type; a value of another type is a type
\* error that leaves the field alone; an unknown key is skipped.
SetField(acc, key, tok) ==
    CASE StrVal(key) = "Val1" ->
            IF tok \in NumToks THEN [acc EXCEPT !.obj.Val1 = NumVal(tok)]
            ELSE [acc EXCEPT !.typeErr = TRUE]
      [] StrVal(key) = "Val2" ->
            IF tok \in StringToks THEN [acc EXCEPT !.obj.Val2 = StrVal(tok)]
            ELSE [acc EXCEPT !.typeErr = TRUE]
      [] OTHER -> acc

\* The scanner over an object's tokens from toks[i] on, in state st.
RECURSIVE ScanObject(_, _, _, _, _)
ScanObject(toks, i, st, key, acc) ==
    IF i > Len(toks) THEN [acc EXCEPT !.status = "incomplete"]
    ELSE LET tok == toks[i] IN
      IF tok \in Whitespace THEN ScanObject(toks, i + 1, st, key, acc)
      ELSE CASE st = "keyOrEnd" /\ tok = "}" ->
                    [acc EXCEPT !.status = "complete", !.end = i]
             [] st \in {"keyOrEnd", "key"} /\ tok \in StringToks ->
                    ScanObject(toks, i + 1, "colon", tok, acc)
             [] st = "colon" /\ tok = ":" -> ScanObject(toks, i + 1, "value", key, acc)
             [] st = "value" /\ tok \in StringToks \cup NumToks ->
                    ScanObject(toks, i + 1, "commaOrEnd", key, SetField(acc, key, tok))
             [] st = "commaOrEnd" /\ tok = "," -> ScanObject(toks, i + 1, "key", key, acc)
             [] st = "commaOrEnd" /\ tok = "}" ->
                    [acc EXCEPT !.status = "complete", !.end = i]
             [] OTHER -> [acc EXCEPT !.status = "invalid"]

\* The first JSON value of toks, decoded over the destination d: status is
\* "complete", "incomplete" (the input ends inside the value), "empty" (no
\* value at all) or "invalid" (a syntax error); end is the position of the
\* value's last token, where the decoder stops reading.
RECURSIVE ScanValue(_, _, _)
ScanValue(toks, i, d) ==
    LET acc == [status |-> "empty", obj |-> d, typeErr |-> FALSE, end |-> 0] IN
    IF i > Len(toks) THEN acc
    ELSE IF toks[i] \in Whitespace THEN ScanValue(toks, i + 1, d)
    ELSE IF toks[i] = "{" THEN ScanObject(toks, i + 1, "keyOrEnd", "", acc)
    ELSE IF toks[i] \in StringToks \cup NumToks
         THEN [acc EXCEPT !.status = "complete", !.typeErr = TRUE, !.end = i]
    ELSE [acc EXCEPT !.status = "invalid"]

\* Whether the input begins with a complete JSON value.
FirstValueComplete(toks) == ScanValue(toks, 1, ZeroPayload).status = "complete"

\* Whether the input as a whole is one JSON document: one complete value with
\* nothing but white space behind it.
WellFormed(toks) ==
    LET sc == ScanValue(toks, 1, ZeroPayload) IN
    /\ sc.status = "complete"
    /\ \A i \in (sc.end + 1)..Len(toks) : toks[i] \in Whitespace

\* Decode taking an input that ends inside its value for a value.
DecodeErr_AcceptsIncomplete(b, d) ==
    LET sc == ScanValue(ReadAllData(b), 1, d) IN
    CASE sc.status = "invalid" -> LeafErr("json.SyntaxError")
      [] sc.status = "complete" ->
            IF sc.typeErr THEN LeafErr("json.UnmarshalTypeError") ELSE NilErr
      [] OTHER -> NilErr

\* Decode's error: a syntax error, a type error of a complete value, or, when
\* the input ends before the value does, the reader's error, io.EOF or
\* io.ErrUnexpectedEOF.
DecodeErr(b, d) ==
    LET sc == ScanValue(ReadAllData(b), 1, d) IN
    CASE sc.status = "invalid" -> LeafErr("json.SyntaxError")
      [] sc.status = "complete" ->
            IF sc.typeErr THEN LeafErr("json.UnmarshalTypeError") ELSE NilErr
      [] OTHER ->
            IF ReadAllErr(b) # NilErr THEN ReadAllErr(b)
            ELSE IF sc.status = "empty" THEN LeafErr("EOF")
            ELSE LeafErr("unexpected EOF")

\* The destination after Decode: written only from a complete value.
DecodeDest(b, d) ==
    LET sc == ScanValue(ReadAllData(b), 1, d) IN
    IF sc.status = "complete" THEN sc.obj ELSE d

----------------------------------------------------------------------------
(* Result: the status check and the terminal operations *)

\* The text checkStatus puts in place of a body it could not read.
ReadFailureMessage(rq, err) ==
    << "Failed to read response body for '" \o rq.method \o " " \o URLString(rq.u)
       \o "': " \o err[1].kind >>

\* checkStatus returning the error of the failed read in place of the typed
\* error.
checkStatus_ReturnsReadErr(rq, rp) ==
    IF rp.StatusCode >= StatusBadRequest
    THEN IF ReadAllErr(rp.Body) # NilErr
         THEN Wrapf("failed to read response body", rq.method, URLString(rq.u),
                    ReadAllErr(rp.Body))
         ELSE NewError(rp.StatusCode, ReadAllData(rp.Body))
    ELSE NilErr

\* checkStatus with > in place of >=.
checkStatus_StrictlyAbove(rq, rp) ==
    IF rp.StatusCode > StatusBadRequest
    THEN NewError(rp.StatusCode,
                  IF ReadAllErr(rp.Body) # NilErr
                  THEN ReadFailureMessage(rq, ReadAllErr(rp.Body))
                  ELSE ReadAllData(rp.Body))
    ELSE NilErr

\* checkStatus: a status code of 400 or more becomes a typed error whose
\* message is the body read in full.
checkStatus(rq, rp) ==
    IF rp.StatusCode >= StatusBadRequest
    THEN NewError(rp.StatusCode,
                  IF ReadAllErr(rp.Body) # NilErr
                  THEN ReadFailureMessage(rq, ReadAllErr(rp.Body))
                  ELSE ReadAllData(rp.Body))
    ELSE NilErr

\* The body after checkStatus: read to its end when the status is 400 or more.
checkStatusBody(rp) ==
    IF rp.StatusCode >= StatusBadRequest THEN ReadAllBody(rp.Body) ELSE rp.Body

\* fmt.Errorf("expected a non-nil response for '%s %s'", ...)
NilResponseErr(rq) == Wrapf("expected a non-nil response", rq.method, URLString(rq.u), NilErr)

\* What a terminal operation returns.
Return(op, response, bytes, err, nilDest) ==
    [op |-> op, response |-> response, bytes |-> bytes, err |-> err, nilDest |-> nilDest]

\* A terminal operation's outcome: what it returns, the response body, the
\* caller's writer and the caller's decode destination after it; panic says
\* the operation dereferenced a nil pointer instead of returning.
Outcome4(r, body, w, d) ==
    [ret |-> r, body |-> body, sink |-> w, dest |-> d, panic |-> FALSE]

\* Response() without the guard of an absent response: the status check
\* dereferences the nil *http.Response.
Response_NoNilGuard(rs, rq, rp, w, d) ==
    IF rs.err # NilErr
    THEN Outcome4(Return("Response", FALSE, NilBody, rs.err, FALSE), rp.Body, w, d)
    ELSE IF ~rs.response
    THEN [Outcome4(Return("Response", FALSE, NilBody, NilErr, FALSE), rp.Body, w, d)
             EXCEPT !.panic = TRUE]
    ELSE IF checkStatus(rq, rp) # NilErr
    THEN Outcome4(Return("Response", FALSE, NilBody, checkStatus(rq, rp), FALSE),
                  checkStatusBody(rp), w, d)
    ELSE Outcome4(Return("Response", TRUE, NilBody, NilErr, FALSE), rp.Body, w, d)

\* Response() closing the body when the status check fails.
Response_ClosesOnStatusError(rs, rq, rp, w, d) ==
    IF rs.err # NilErr
    THEN Outcome4(Return("Response", FALSE, NilBody, rs.err, FALSE), rp.Body, w, d)
    ELSE IF ~rs.response
    THEN Outcome4(Return("Response", FALSE, NilBody, NilResponseErr(rq), FALSE), rp.Body, w, d)
    ELSE IF checkStatus(rq, rp) # NilErr
    THEN Outcome4(Return("Response", FALSE, NilBody, checkStatus(rq, rp), FALSE),
                  CloseBody(checkStatusBody(rp)), w, d)
    ELSE Outcome4(Return("Response", TRUE, NilBody, NilErr, FALSE), rp.Body, w, d)

\* Response() hands the response over without closing its body.
Response(rs, rq, rp, w, d) ==
    IF rs.err # NilErr
    THEN Outcome4(Return("Response", FALSE, NilBody, rs.err, FALSE), rp.Body, w, d)
    ELSE IF ~rs.response
    THEN Outcome4(Return("Response", FALSE, NilBody, NilResponseErr(rq), FALSE), rp.Body, w, d)
    ELSE IF checkStatus(rq, rp) # NilErr
    THEN Outcome4(Return("Response", FALSE, NilBody, checkStatus(rq, rp), FALSE),
                  checkStatusBody(rp), w, d)
    ELSE Outcome4(Return("Response", TRUE, NilBody, NilErr, FALSE), rp.Body, w, d)

\* StreamResponse with the copy made before the status check.
StreamResponse_CopyBeforeStatus(rs, rq, rp, w, d) ==
    IF rs.err # NilErr
    THEN Outcome4(Return("StreamResponse", FALSE, NilBody, rs.err, FALSE), rp.Body, w, d)
    ELSE IF ~rs.response
    THEN Outcome4(Return("StreamResponse", FALSE, NilBody, NilResponseErr(rq), FALSE),
                  rp.Body, w, d)
    ELSE IF ReadAllErr(rp.Body) # NilErr
    THEN Outcome4(Return("StreamResponse", TRUE, NilBody,
                         Wrapf("failed to copy response to destination", rq.method,
                               URLString(rq.u), ReadAllErr(rp.Body)), FALSE),
                  CloseBody(ReadAllBody(rp.Body)), w \o ReadAllData(rp.Body), d)
    ELSE IF rp.StatusCode >= StatusBadRequest
    THEN Outcome4(Return("StreamResponse", TRUE, NilBody,
                         NewError(rp.StatusCode, << >>), FALSE),
                  CloseBody(ReadAllBody(rp.Body)), w \o ReadAllData(rp.Body), d)
    ELSE Outcome4(Return("StreamResponse", TRUE, NilBody, NilErr, FALSE),
                  CloseBody(ReadAllBody(rp.Body)), w \o ReadAllData(rp.Body), d)

\* StreamResponse(dst) copies the body into dst and closes it.
StreamResponse(rs, rq, rp, w, d) ==
    IF rs.err # NilErr
    THEN Outcome4(Return("StreamResponse", FALSE, NilBody, rs.err, FALSE), rp.Body, w, d)
    ELSE IF ~rs.response
    THEN Outcome4(Return("StreamResponse", FALSE, NilBody, NilResponseErr(rq), FALSE),
                  rp.Body, w, d)
    ELSE IF checkStatus(rq, rp) # NilErr
    THEN Outcome4(Return("StreamResponse", TRUE, NilBody, checkStatus(rq, rp), FALSE),
                  CloseBody(checkStatusBody(rp)), w, d)
    ELSE IF ReadAllErr(rp.Body) # NilErr
    THEN Outcome4(Return("StreamResponse", TRUE, NilBody,
                         Wrapf("failed to copy response to destination", rq.method,
                               URLString(rq.u), ReadAllErr(rp.Body)), FALSE),
                  CloseBody(ReadAllBody(rp.Body)), w \o ReadAllData(rp.Body), d)
    ELSE Outcome4(Return("StreamResponse", TRUE, NilBody, NilErr, FALSE),
                  CloseBody(ReadAllBody(rp.Body)), w \o ReadAllData(rp.Body), d)

\* (*bytes.Buffer).Bytes() after io.Copy(buf, body) filled a new buffer with
\* data. io.Copy uses the body's WriteTo when the body has one (http.NoBody,
\* a NopCloser over a bytes.Buffer since Go 1.19), which writes nothing when
\* there is nothing to read and leaves the buffer unallocated: Bytes() is the
\* nil slice. Otherwise it uses the buffer's ReadFrom, which allocates before
\* it reads: Bytes() is an empty slice that is not nil.
BufferBytes(data, writerTo) ==
    IF data = << >> /\ writerTo THEN NilBody ELSE BodyOf(data)

\* RawBytes returning no response when StreamResponse failed.
RawBytes_Request_NoResponseOnErr(rs, rq, rp, w, d, writerTo) ==
    IF rs.err # NilErr
    THEN Outcome4(Return("RawBytes", FALSE, NilBody, rs.err, FALSE), rp.Body, w, d)
    ELSE LET st == StreamResponse(rs, rq, rp, << >>, d) IN
         IF st.ret.err # NilErr
         THEN Outcome4(Return("RawBytes", FALSE, NilBody, st.ret.err, FALSE),
                       st.body, w, d)
         ELSE Outcome4(Return("RawBytes", st.ret.response,
                              BufferBytes(st.sink, writerTo), NilErr, FALSE),
                       st.body, w, d)

\* RawBytes of the exported builder: StreamResponse into a buffer of its own;
\* writerTo says whether io.Copy finds a WriteTo on the body.
RawBytes_Request(rs, rq, rp, w, d, writerTo) ==
    IF rs.err # NilErr
    THEN Outcome4(Return("RawBytes", FALSE, NilBody, rs.err, FALSE), rp.Body, w, d)
    ELSE LET st == StreamResponse(rs, rq, rp, << >>, d) IN
         IF st.ret.err # NilErr
         THEN Outcome4(Return("RawBytes", st.ret.response, NilBody, st.ret.err, FALSE),
                       st.body, w, d)
         ELSE Outcome4(Return("RawBytes", st.ret.response,
                              BufferBytes(st.sink, writerTo), NilErr, FALSE),
                       st.body, w, d)

\* RawBytes of the unexported builder: ioutil.ReadAll of the body.
RawBytes_request(rs, rq, rp, w, d) ==
    IF rs.err # NilErr
    THEN Outcome4(Return("RawBytes", FALSE, NilBody, rs.err, FALSE), rp.Body, w, d)
    ELSE IF ~rs.response
    THEN Outcome4(Return("RawBytes", FALSE, NilBody, NilResponseErr(rq), FALSE), rp.Body, w, d)
    ELSE IF checkStatus(rq, rp) # NilErr
    THEN Outcome4(Return("RawBytes", TRUE, NilBody, checkStatus(rq, rp), FALSE),
                  CloseBody(checkStatusBody(rp)), w, d)
    ELSE IF ReadAllErr(rp.Body) # NilErr
    THEN Outcome4(Return("RawBytes", TRUE, NilBody,
                         Wrapf("failed to read response body", rq.method,
                               URLString(rq.u), ReadAllErr(rp.Body)), FALSE),
                  CloseBody(ReadAllBody(rp.Body)), w, d)
    ELSE Outcome4(Return("RawBytes", TRUE, BodyOf(ReadAllData(rp.Body)), NilErr, FALSE),
                  CloseBody(ReadAllBody(rp.Body)), w, d)

\* DecodeJSON with the body closed at the end of a successful decode only,
\* not by a deferred call.
DecodeJSON_CloseOnSuccessOnly(rs, rq, rp, w, d, nilDest) ==
    IF rs.err # NilErr
    THEN Outcome4(Return("DecodeJSON", FALSE, NilBody, rs.err, nilDest), rp.Body, w, d)
    ELSE IF ~rs.response
    THEN Outcome4(Return("DecodeJSON", FALSE, NilBody, NilResponseErr(rq), nilDest),
                  rp.Body, w, d)
    ELSE IF checkStatus(rq, rp) # NilErr
    THEN Outcome4(Return("DecodeJSON", TRUE, NilBody, checkStatus(rq, rp), nilDest),
                  checkStatusBody(rp), w, d)
    ELSE IF nilDest
    THEN Outcome4(Return("DecodeJSON", TRUE, NilBody,
                         Wrapf("decode destination was nil", rq.method,
                               URLString(rq.u), NilErr), nilDest),
                  rp.Body, w, d)
    ELSE IF DecodeErr(rp.Body, d) # NilErr
    THEN Outcome4(Return("DecodeJSON", TRUE, NilBody,
                         Wrapf("failed to decode the response body", rq.method,
                               URLString(rq.u), DecodeErr(rp.Body, d)), nilDest),
                  ReadAllBody(rp.Body), w, DecodeDest(rp.Body, d))
    ELSE Outcome4(Return("DecodeJSON", TRUE, NilBody, NilErr, nilDest),
                  CloseBody(ReadAllBody(rp.Body)), w, DecodeDest(rp.Body, d))

\* DecodeJSON wrapping the Result's error like a decoding failure.
DecodeJSON_RewrapsStoredErr(rs, rq, rp, w, d, nilDest) ==
    IF rs.err # NilErr
    THEN Outcome4(Return("DecodeJSON", FALSE, NilBody,
                         Wrapf("failed to decode the response body", rq.method,
                               URLString(rq.u), rs.err), nilDest),
                  rp.Body, w, d)
    ELSE IF ~rs.response
    THEN Outcome4(Return("DecodeJSON", FALSE, NilBody, NilResponseErr(rq), nilDest),
                  rp.Body, w, d)
    ELSE IF checkStatus(rq, rp) # NilErr
    THEN Outcome4(Return("DecodeJSON", TRUE, NilBody, checkStatus(rq, rp), nilDest),
                  CloseBody(checkStatusBody(rp)), w, d)
    ELSE IF nilDest
    THEN Outcome4(Return("DecodeJSON", TRUE, NilBody,
                         Wrapf("decode destination was nil", rq.method,
                               URLString(rq.u), NilErr), nilDest),
                  CloseBody(rp.Body), w, d)
    ELSE IF DecodeErr(rp.Body, d) # NilErr
    THEN Outcome4(Return("DecodeJSON", TRUE, NilBody,
                         Wrapf("failed to decode the response body", rq.method,
                               URLString(rq.u), DecodeErr(rp.Body, d)), nilDest),
                  CloseBody(ReadAllBody(rp.Body)), w, DecodeDest(rp.Body, d))
    ELSE Outcome4(Return("DecodeJSON", TRUE, NilBody, NilErr, nilDest),
                  CloseBody(ReadAllBody(rp.Body)), w, DecodeDest(rp.Body, d))

\* DecodeJSON with the nil-destination check moved in front of the status check.
DecodeJSON_NilDestFirst(rs, rq, rp, w, d, nilDest) ==
    IF rs.err # NilErr
    THEN Outcome4(Return("DecodeJSON", FALSE, NilBody, rs.err, nilDest), rp.Body, w, d)
    ELSE IF ~rs.response
    THEN Outcome4(Return("DecodeJSON", FALSE, NilBody, NilResponseErr(rq), nilDest),
                  rp.Body, w, d)
    ELSE IF nilDest
    THEN Outcome4(Return("DecodeJSON", TRUE, NilBody,
                         Wrapf("decode destination was nil", rq.method,
                               URLString(rq.u), NilErr), nilDest),
                  CloseBody(rp.Body), w, d)
    ELSE IF checkStatus(rq, rp) # NilErr
    THEN Outcome4(Return("DecodeJSON", TRUE, NilBody, checkStatus(rq, rp), nilDest),
                  CloseBody(checkStatusBody(rp)), w, d)
    ELSE IF DecodeErr(rp.Body, d) # NilErr
    THEN Outcome4(Return("DecodeJSON", TRUE, NilBody,
                         Wrapf("failed to decode the response body", rq.method,
                               URLString(rq.u), DecodeErr(rp.Body, d)), nilDest),
                  CloseBody(ReadAllBody(rp.Body)), w, DecodeDest(rp.Body, d))
    ELSE Outcome4(Return("DecodeJSON", TRUE, NilBody, NilErr, nilDest),
                  CloseBody(ReadAllBody(rp.Body)), w, DecodeDest(rp.Body, d))

\* DecodeJSON without the nil-destination check: the decoder reads the body
\* and then rejects the destination.
DecodeJSON_NoNilDestGuard(rs, rq, rp, w, d, nilDest) ==
    IF rs.err # NilErr
    THEN Outcome4(Return("DecodeJSON", FALSE, NilBody, rs.err, nilDest), rp.Body, w, d)
    ELSE IF ~rs.response
    THEN Outcome4(Return("DecodeJSON", FALSE, NilBody, NilResponseErr(rq), nilDest),
                  rp.Body, w, d)
    ELSE IF checkStatus(rq, rp) # NilErr
    THEN Outcome4(Return("DecodeJSON", TRUE, NilBody, checkStatus(rq, rp), nilDest),
                  CloseBody(checkStatusBody(rp)), w, d)
    ELSE IF nilDest
    THEN Outcome4(Return("DecodeJSON", TRUE, NilBody,
                         Wrapf("failed to decode the response body", rq.method,
                               URLString(rq.u), LeafErr("json.InvalidUnmarshalError")),
                         nilDest),
                  CloseBody(ReadAllBody(rp.Body)), w, d)
    ELSE IF DecodeErr(rp.Body, d) # NilErr
    THEN Outcome4(Return("DecodeJSON", TRUE, NilBody,
                         Wrapf("failed to decode the response body", rq.method,
                               URLString(rq.u), DecodeErr(rp.Body, d)), nilDest),
                  CloseBody(ReadAllBody(rp.Body)), w, DecodeDest(rp.Body, d))
    ELSE Outcome4(Return("DecodeJSON", TRUE, NilBody, NilErr, nilDest),
                  CloseBody(ReadAllBody(rp.Body)), w, DecodeDest(rp.Body, d))

\* DecodeJSON(v) decodes the body into v and closes it; nilDest says v is nil.
DecodeJSON(rs, rq, rp, w, d, nilDest) ==
    IF rs.err # NilErr
    THEN Outcome4(Return("DecodeJSON", FALSE, NilBody, rs.err, nilDest), rp.Body, w, d)
    ELSE IF ~rs.response
    THEN Outcome4(Return("DecodeJSON", FALSE, NilBody, NilResponseErr(rq), nilDest),
                  rp.Body, w, d)
    ELSE IF checkStatus(rq, rp) # NilErr
    THEN Outcome4(Return("DecodeJSON", TRUE, NilBody, checkStatus(rq, rp), nilDest),
                  CloseBody(checkStatusBody(rp)), w, d)
    ELSE IF nilDest
    THEN Outcome4(Return("DecodeJSON", TRUE, NilBody,
                         Wrapf("decode destination was nil", rq.method,
                               URLString(rq.u), NilErr), nilDest),
                  CloseBody(rp.Body), w, d)
    ELSE IF DecodeErr(rp.Body, d) # NilErr
    THEN Outcome4(Return("DecodeJSON", TRUE, NilBody,
                         Wrapf("failed to decode the response body", rq.method,
                               URLString(rq.u), DecodeErr(rp.Body, d)), nilDest),
                  CloseBody(ReadAllBody(rp.Body)), w, DecodeDest(rp.Body, d))
    ELSE Outcome4(Return("DecodeJSON", TRUE, NilBody, NilErr, nilDest),
                  CloseBody(ReadAllBody(rp.Body)), w, DecodeDest(rp.Body, d))

\* A terminal operation runs on the Result Do() returned.
CanTerminate == ~panicked /\ res.made

\* The state after a terminal operation with outcome o.
Terminate(o) ==
    /\ ret' = o.ret
    /\ resp' = [resp EXCEPT !.Body = o.body]
    /\ sink' = o.sink
    /\ dest' = o.dest
    /\ firstFail' = NoteFailure(o.ret.err)
    /\ panicked' = o.panic
    /\ UNCHANGED << variant, ci, lazyInits, handle, req, res, sent, answered,
                    transportCalls, cbCalls, lastBody, bodySets, cbSeen, doSteps,
                    threads, calc >>

ResponseCall ==
    /\ CanTerminate
    /\ Terminate(Response(res, res.request, resp, sink, dest))

RawBytesCall ==
    /\ CanTerminate
    /\ \/ /\ variant = "request"
          /\ Terminate(RawBytes_request(res, res.request, resp, sink, dest))
       \/ /\ variant = "Request"
          /\ \E writerTo \in BOOLEAN :
                Terminate(RawBytes_Request(res, res.request, resp, sink, dest, writerTo))

StreamResponseCall ==
    /\ CanTerminate
    /\ variant = "Request"
    /\ Terminate(StreamResponse(res, res.request, resp, sink, dest))

DecodeJSONCall ==
    /\ CanTerminate
    /\ \E nilDest \in BOOLEAN :
          Terminate(DecodeJSON(res, res.request, resp, sink, dest, nilDest))

----------------------------------------------------------------------------
(* The specification *)

Next ==
    \/ GET
    \/ HEAD
    \/ POST
    \/ PUT
    \/ PATCH
    \/ DELETE
    \/ NewRequestCall
    \/ WithRequestBody
    \/ EncodeJSON
    \/ Prepare
    \/ Do
    \/ ResponseCall
    \/ RawBytesCall
    \/ StreamResponseCall
    \/ DecodeJSONCall

Spec == Init /\ [][Next]_vars

----------------------------------------------------------------------------
(* Concurrent first use of one Client *)

\* Several goroutines make a request-creating call on the same Client. The
\* call is lazyInitialize (the test c.ci == nil, then the assignment) and
\* makeRequest(c.ci, ...); nothing orders one goroutine's accesses of c.ci
\* against another's, so a read that races with an assignment yields any value
\* the build lets it see.

\* The transport the Client was constructed with: assignments only ever store
\* default instances.
Constructed == IF ci = "mock" THEN "mock" ELSE "nil"

\* lazyInitialize with the assignment made whatever the field holds.
RaceCheckOutcomes_NoTest(c0, c) == {TRUE}

\* What the test c.ci == nil can find: nil, when the field was nil at
\* construction (the read may miss another goroutine's assignment); non-nil,
\* when the field holds a transport now.
RaceCheckOutcomes(c0, c) ==
    { b \in BOOLEAN : (b => c0 = "nil") /\ (~b => c # "nil") }

\* What the read of c.ci in makeRequest can yield: for a goroutine that
\* stored an instance, its own or a later one; for one that found the field
\* set, any instance stored so far, or, the interface value being two words
\* written without synchronisation, a torn value.
RaceReads(th, c0, n) ==
    IF th.assigned > 0 THEN { DefaultTransport(k) : k \in th.assigned..n }
    ELSE IF c0 # "nil" THEN {c0}
    ELSE { DefaultTransport(k) : k \in 1..n } \cup {"torn"}

RaceFrame ==
    UNCHANGED << variant, handle, req, res, resp, ret, dest, sink, sent, answered,
                 transportCalls, cbCalls, firstFail, panicked, lastBody, bodySets,
                 cbSeen, doSteps, calc >>

\* if c.ci == nil
RaceCheck(t) ==
    /\ threads[t].pc = "idle"
    /\ \E b \in RaceCheckOutcomes(Constructed, ci) :
          threads' = [threads EXCEPT ![t].pc = "checked", ![t].sawNil = b]
    /\ UNCHANGED << ci, lazyInits >>
    /\ RaceFrame

\* c.ci = &http.Client{}
RaceAssign(t) ==
    /\ threads[t].pc = "checked"
    /\ threads[t].sawNil
    /\ lazyInits < NumThreads
    /\ ci' = lazyInitialize("nil", lazyInits)
    /\ lazyInits' = lazyInits + 1
    /\ threads' = [threads EXCEPT ![t].pc = "assigned", ![t].assigned = lazyInits + 1]
    /\ RaceFrame

\* return makeRequest(c.ci, method, u)
RaceMake(t) ==
    /\ \/ threads[t].pc = "assigned"
       \/ threads[t].pc = "checked" /\ ~threads[t].sawNil
    /\ \E c \in RaceReads(threads[t], Constructed, lazyInits), m \in Verbs, u \in URLs :
          threads' = [threads EXCEPT ![t].pc = "done", ![t].req = makeRequest(c, m, u)]
    /\ UNCHANGED << ci, lazyInits >>
    /\ RaceFrame

RaceNext == \E t \in Threads : RaceCheck(t) \/ RaceAssign(t) \/ RaceMake(t)

RaceSpec == Init /\ [][RaceNext]_vars

----------------------------------------------------------------------------
(* The methods of Error *)

\* The status codes of the errors the methods are called on: the catalogue's
\* and one that is no error status.
ErrCodes == {StatusOK} \cup { Catalogue[i][1].StatusCode : i \in 1..Len(Catalogue) }

\* The receivers: for every code an *Error with the generic message and one
\* with a message of the caller's.
TestMessage == << "test message" >>
TypedErrors ==
    { newGenericError(c) : c \in ErrCodes } \cup { NewError(c, TestMessage) : c \in ErrCodes }

\* The error values handed to Is: *Errors, the nil error, a nil *Error, an
\* error of another type, and an error of another type that wraps an *Error.
ErrorValues ==
    TypedErrors
    \cup { NilErr, NilTypedError, LeafErr("transport error"),
           Wrapf("wrapped", MethodGet, URLString(GoodURL), ErrNotFound) }

\* The formats and arguments handed to Newf.
Formats == { << "test format ", "%d", " ", "%s" >>, << "plain" >>, << >> }
ArgLists == { << IntArg(1), StringArg("x") >>, << StringArg("x"), IntArg(1) >>, << >> }

\* The *Error objects in memory before a call: the catalogue's shared
\* instances and one made by NewError.
InitHeap == Catalogue \o << NewError(StatusOK, TestMessage) >>

\* New with the receiver's message replaced in place and the receiver returned.
ErrorNew_InPlace(h, a, message) ==
    [heap |-> [h EXCEPT ![a] = New(h[a], message)], out |-> a]

\* e.New(message) on the object at address a: NewError allocates the result.
ErrorNew(h, a, message) ==
    [heap |-> Append(h, New(h[a], message)), out |-> Len(h) + 1]

\* e.Newf(format, args...) on the object at address a.
ErrorNewf(h, a, format, args) ==
    [heap |-> Append(h, Newf(h[a], format, args)), out |-> Len(h) + 1]

CalcFrame ==
    UNCHANGED << variant, ci, lazyInits, handle, req, res, resp, ret, dest, sink,
                 sent, answered, transportCalls, cbCalls, firstFail, panicked,
                 lastBody, bodySets, cbSeen, doSteps, threads >>

IsCall ==
    /\ \E e \in TypedErrors, o \in ErrorValues :
          calc' = [NoCalc EXCEPT !.op = "Is", !.e = e, !.o = o, !.holds = Is(e, o)]
    /\ CalcFrame

HasStatusCodeCall ==
    /\ \E e \in TypedErrors, code \in ErrCodes \cup {0} :
          calc' = [NoCalc EXCEPT !.op = "HasStatusCode", !.e = e, !.code = code,
                                 !.holds = HasStatusCode(e, code)]
    /\ CalcFrame

NewCall ==
    /\ \E a \in 1..Len(InitHeap), message \in {TestMessage, << >>} :
          LET r == ErrorNew(InitHeap, a, message) IN
          calc' = [NoCalc EXCEPT !.op = "New", !.e = InitHeap[a], !.message = message,
                                 !.heap = r.heap, !.recv = a, !.out = r.out]
    /\ CalcFrame

NewfCall ==
    /\ \E a \in 1..Len(InitHeap), format \in Formats, args \in ArgLists :
          LET r == ErrorNewf(InitHeap, a, format, args) IN
          calc' = [NoCalc EXCEPT !.op = "Newf", !.e = InitHeap[a], !.format = format,
                                 !.args = args, !.heap = r.heap, !.recv = a,
                                 !.out = r.out]
    /\ CalcFrame

ErrNext == IsCall \/ HasStatusCodeCall \/ NewCall \/ NewfCall

ErrSpec == Init /\ [][ErrNext]_vars

----------------------------------------------------------------------------
(* Properties of the call chain *)

BuilderStep == WithRequestBody \/ EncodeJSON \/ Prepare
TerminalStep == ResponseCall \/ RawBytesCall \/ StreamResponseCall \/ DecodeJSONCall

\* C1: in every chain factory, builder calls, Do(), one terminal operation,
\* no call panics, and once a step has failed the terminal operation returns
\* the first error of the chain.
C1_FirstErrorSurfaced ==
    /\ [](~panicked)
    /\ [][TerminalStep /\ ret.op = "none" /\ firstFail' # NilErr
            => ret'.err = firstFail']_vars

\* C2: on a Request whose err is set, every builder call returns that same
\* Request with body and err unchanged.
C2_StickyBuilders ==
    [][BuilderStep /\ handle = "req" /\ req.err # NilErr
         => handle' = "req" /\ req'.reqbody = req.reqbody /\ req'.err = req.err]_vars

\* C3: Prepare on a Request whose err is set returns the same handle and
\* leaves err, body and the stored callback as they were.
C3_PrepareNoOp ==
    [][Prepare /\ handle = "req" /\ req.err # NilErr
         => handle' = "req" /\ req' = req]_vars

\* C4: Do() on a Request whose err is set calls neither the transport nor the
\* prepare callback, and its Result carries exactly that err and no response.
C4_DoShortCircuits ==
    res.made /\ req.err # NilErr
        => /\ transportCalls = 0
           /\ cbCalls = 0
           /\ answered = "none"
           /\ ~sent.made
           /\ res.err = req.err
           /\ ~res.response
           /\ resp = NoResponse

\* C4 witness: Do() ran on a failed Request that holds a prepare callback.
C4_Witness ==
    /\ res.made
    /\ req.err # NilErr
    /\ req.prepareCB = "ok"
    /\ req.ci = "mock"
    /\ res.err = req.err

\* C5: every Result of Do() has a response or an err, and never both.
C5_ResponseXorErr ==
    res.made => (res.response # (res.err # NilErr))

\* C6, as stated: on a Result with a response every terminal operation
\* returns a typed error exactly when the status is 400 or more, with the
\* response's status, the full body as message, matching the catalogue error.
C6_StatusTranslation ==
    [][TerminalStep /\ res.response
         => /\ IsTypedError(ret'.err) <=> resp.StatusCode >= StatusBadRequest
            /\ IsTypedError(ret'.err)
                 => /\ ret'.err[1].StatusCode = resp.StatusCode
                    /\ ret'.err[1].Message = resp.Body.data
                    /\ Is(newGenericError(resp.StatusCode), ret'.err)]_vars

\* C6, amended: the typed error is returned exactly when the status is 400 or
\* more, carries the response's status and matches the catalogue error of that
\* code; its message is the body text still unread when the operation starts
\* (the full body on an unread body), provided the body reads without error.
C6_StatusTranslationUnread ==
    [][TerminalStep /\ res.response
         => /\ IsTypedError(ret'.err) <=> resp.StatusCode >= StatusBadRequest
            /\ IsTypedError(ret'.err)
                 => /\ ret'.err[1].StatusCode = resp.StatusCode
                    /\ Is(newGenericError(resp.StatusCode), ret'.err)
                    /\ resp.StatusCode = StatusBadRequest => Is(ErrBadRequest, ret'.err)
                    /\ resp.StatusCode = StatusInternalServerError
                         => Is(ErrInternalServer, ret'.err)
                    /\ resp.Body.failAt < 0 /\ resp.Body.pos = 0
                         => ret'.err[1].Message = resp.Body.data
                    /\ resp.Body.failAt < 0 /\ resp.Body.pos = Len(resp.Body.data)
                         => ret'.err[1].Message = << >>]_vars

\* C6 witness: a terminal operation turned a 400 response with the body
\* "Bad Request" into the typed error (400, "Bad Request").
C6_Witness ==
    /\ ret.op = "DecodeJSON"
    /\ res.response
    /\ resp.StatusCode = StatusBadRequest
    /\ resp.Body.data = << "Bad Request" >>
    /\ ret.err = NewError(StatusBadRequest, << "Bad Request" >>)
    /\ Is(ErrBadRequest, ret.err)

\* C7: every terminal operation returns a set Result.err unchanged without
\* touching the body; else reports an absent response; else returns the typed
\* error of a status of 400 or more without reading, copying or decoding for
\* the caller; only otherwise reads, copies or decodes, and wraps a failure.
C7_Precedence ==
    [][TerminalStep
         => /\ res.err # NilErr
                 => /\ ret'.err = res.err
                    /\ ~ret'.response /\ ret'.bytes = NilBody
                    /\ resp' = resp /\ sink' = sink /\ dest' = dest
            /\ res.err = NilErr /\ ~res.response
                 => /\ Len(ret'.err) = 1
                    /\ ret'.err[1].kind = "expected a non-nil response"
                    /\ ret'.err[1].method = req.method
                    /\ ~ret'.response /\ ret'.bytes = NilBody
                    /\ resp' = resp /\ sink' = sink /\ dest' = dest
            /\ res.err = NilErr /\ res.response /\ resp.StatusCode >= StatusBadRequest
                 => /\ IsTypedError(ret'.err)
                    /\ ret'.bytes = NilBody /\ sink' = sink /\ dest' = dest
            /\ res.err = NilErr /\ res.response /\ resp.StatusCode < StatusBadRequest
                 => \/ ret'.err = NilErr
                    \/ /\ ret'.nilDest
                       /\ ret'.err[1].kind = "decode destination was nil"
                    \/ /\ Len(ret'.err) > 1
                       /\ ret'.err[1].kind \in
                            { "failed to read response body",
                              "failed to copy response to destination",
                              "failed to decode the response body" }]_vars

\* C7 witness: DecodeJSON(nil) on a response of status 400 returned the typed
\* error, not the nil-destination error.
C7_Witness ==
    /\ ret.op = "DecodeJSON"
    /\ ret.nilDest
    /\ res.response
    /\ resp.StatusCode = StatusBadRequest
    /\ IsTypedError(ret.err)

\* C8: when the transport answers (nil, err), the Result has no response and
\* its err wraps the transport's error with method and URL; every terminal
\* operation returns that err, no response and no body or payload.
C8_TransportFailure ==
    answered = "err"
        => /\ res.made /\ ~res.response /\ resp = NoResponse
           /\ Len(res.err) = 2
           /\ res.err[1].kind = "non-protocol request error"
           /\ res.err[1].method = req.method
           /\ res.err[1].url = sent.URL
           /\ Cause(res.err) = LeafErr("transport error")
           /\ ret.op # "none"
                => /\ ret.err = res.err
                   /\ ~ret.response /\ ret.bytes = NilBody
                   /\ dest = ZeroPayload /\ sink = << >>

\* C8 witness: DecodeJSON into a destination ran on the Result of a failed
\* transport call.
C8_Witness ==
    /\ answered = "err"
    /\ ret.op = "DecodeJSON"
    /\ ~ret.nilDest
    /\ ret.err = res.err

\* C9: when the transport answers (nil, nil), no terminal operation panics;
\* each returns the error naming the missing response, no response and no body.
C9_MissingResponse ==
    answered = "nil"
        => /\ ~panicked
           /\ ret.op # "none"
                => /\ ret.err # NilErr
                   /\ ret.err[1].kind = "expected a non-nil response"
                   /\ ~ret.response /\ ret.bytes = NilBody
                   /\ dest = ZeroPayload /\ sink = << >>

\* C9 witness: Response() ran on a Result with neither response nor err.
C9_Witness ==
    /\ answered = "nil"
    /\ ~res.response /\ res.err = NilErr
    /\ ret.op = "Response"
    /\ ret.err # NilErr

\* C10: DecodeJSON(nil) returns an error on every Result, and on a response
\* with a status below 400 it returns the nil-destination error without
\* reading the body.
C10_NilDestination ==
    [][DecodeJSONCall /\ ret'.nilDest
         => /\ ret'.err # NilErr
            /\ dest' = dest
            /\ res.response /\ resp.StatusCode < StatusBadRequest
                 => /\ ret'.err[1].kind = "decode destination was nil"
                    /\ resp'.Body.pos = resp.Body.pos]_vars

\* C10 witness: DecodeJSON(nil) ran on a 200 response with a body, which is
\* closed and still unread.
C10_Witness ==
    /\ ret.op = "DecodeJSON"
    /\ ret.nilDest
    /\ res.response
    /\ resp.StatusCode = StatusOK
    /\ resp.Body.data = JSONBody
    /\ resp.Body.failAt < 0
    /\ resp.Body.pos = 0
    /\ resp.Body.closed
    /\ ret.err[1].kind = "decode destination was nil"

\* The terminal operations that read the body for the caller.
ReadingStep == RawBytesCall \/ StreamResponseCall \/ DecodeJSONCall

\* C11: on a Result with a response, RawBytes, StreamResponse and DecodeJSON
\* return with the body closed on every exit path: success, a status of 400
\* or more, a nil destination, a failed read, copy or decode.
C11_BodyClosed ==
    [][ReadingStep /\ res.response => resp'.Body.closed]_vars

\* C11 witness: DecodeJSON failed on a body whose reader failed, and the body
\* is closed.
C11_Witness ==
    /\ ret.op = "DecodeJSON"
    /\ res.response
    /\ resp.StatusCode = StatusOK
    /\ resp.Body.failAt >= 0
    /\ ret.err # NilErr
    /\ ret.err[1].kind = "failed to decode the response body"
    /\ Cause(ret.err) = LeafErr("body read error")
    /\ resp.Body.closed

\* C12, as stated: Response() on a Result with a response leaves the body as
\* it found it, neither read nor closed, whatever the status code.
C12_ResponseLeavesBody ==
    [][ResponseCall /\ res.response => resp'.Body = resp.Body]_vars

\* C12, amended: Response() never closes the body; it leaves the body unread
\* when the status is below 400, and reads what is left of it into the typed
\* error's message when the status is 400 or more.
C12_ResponseNeverCloses ==
    [][ResponseCall /\ res.response
         => /\ resp'.Body.closed = resp.Body.closed
            /\ resp'.Body.data = resp.Body.data
            /\ resp'.Body.failAt = resp.Body.failAt
            /\ resp.StatusCode < StatusBadRequest => resp'.Body.pos = resp.Body.pos
            /\ resp.StatusCode >= StatusBadRequest
                 => /\ resp'.Body.pos >= resp.Body.pos
                    /\ resp.Body.failAt < 0 => resp'.Body.pos = Len(resp.Body.data)
                    /\ resp.Body.failAt < 0 /\ resp.Body.pos = 0
                         => ret'.err[1].Message = resp.Body.data]_vars

\* C12 witness: Response() ran first on a 500 response; the body is read to
\* its end and still open.
C12_Witness ==
    /\ ret.op = "Response"
    /\ res.response
    /\ resp.StatusCode = StatusInternalServerError
    /\ resp.Body.data # << >>
    /\ resp.Body.pos = Len(resp.Body.data)
    /\ ~resp.Body.closed
    /\ ret.err = NewError(StatusInternalServerError, resp.Body.data)

\* C13: when the status is 400 or more, RawBytes returns no bytes,
\* StreamResponse writes nothing to the destination writer and DecodeJSON
\* leaves the destination as it was; only the typed error is produced.
C13_StatusSupersedes ==
    [][ReadingStep /\ res.response /\ resp.StatusCode >= StatusBadRequest
         => /\ IsTypedError(ret'.err)
            /\ ret'.bytes = NilBody
            /\ sink' = sink
            /\ dest' = dest]_vars

\* C13 witness: DecodeJSON into a destination ran on a 400 response whose
\* body is a decodable JSON object; the destination is untouched.
C13_Witness ==
    /\ ret.op = "DecodeJSON"
    /\ ~ret.nilDest
    /\ res.response
    /\ resp.StatusCode = StatusBadRequest
    /\ resp.Body.data = JSONBody
    /\ resp.Body.failAt < 0
    /\ IsTypedError(ret.err)
    /\ ret.err[1].Message = JSONBody
    /\ dest = ZeroPayload
    /\ sink = << >>

\* Whether Do() gets as far as a successfully built outgoing request.
Constructs(r) ==
    r.err = NilErr /\ newHTTPRequestErr(r.method, URLString(r.u)) = NilErr

\* The positions of step s in the steps Do() ran.
StepsAt(steps, s) == { i \in 1..Len(steps) : steps[i] = s }

\* C14: no builder call invokes the prepare callback; a Do() that builds its
\* outgoing request invokes a stored callback exactly once, right after the
\* construction and right before the transport call, if there is one; the
\* request the callback receives carries the body of the last body-shaping
\* call, wherever Prepare stood in the chain.
C14_PrepareCallback ==
    /\ [][BuilderStep => cbCalls' = cbCalls /\ cbSeen' = cbSeen]_vars
    /\ [][Do /\ handle = "req"
            => /\ cbCalls' = cbCalls
                    + (IF Constructs(req) /\ req.prepareCB # "nil" THEN 1 ELSE 0)
               /\ transportCalls' > transportCalls /\ req.prepareCB # "nil"
                    => cbCalls' = cbCalls + 1
               /\ cbCalls' > cbCalls
                    => /\ cbSeen'.made
                       /\ cbSeen'.Body = lastBody
                       /\ cbSeen'.URL = URLString(req.u)
                       /\ Cardinality(StepsAt(doSteps', "callback")) = 1
                       /\ \A i \in StepsAt(doSteps', "callback") :
                             /\ i > 1 /\ doSteps'[i - 1] = "construct"
                             /\ i < Len(doSteps')
                                  => i + 1 = Len(doSteps') /\ doSteps'[i + 1] = "transport"
                       /\ transportCalls' > transportCalls => sent' = cbSeen'
               /\ cbCalls' = cbCalls
                    => cbSeen' = NoSent /\ StepsAt(doSteps', "callback") = {}]_vars

\* C14 witness: Do() dispatched a Request whose callback received the JSON
\* body that replaced an earlier body.
C14_Witness ==
    /\ res.made
    /\ req.prepareCB = "ok"
    /\ cbCalls = 1
    /\ transportCalls = 1
    /\ bodySets = 2
    /\ cbSeen.made
    /\ cbSeen.Body = BodyOf(EncodeBuf(Payload(1, "a")))
    /\ doSteps = << "firstError", "construct", "callback", "transport" >>

\* The order of the steps of Do().
StepRank(s) ==
    CASE s = "firstError" -> 1
      [] s = "construct" -> 2
      [] s = "callback" -> 3
      [] s = "transport" -> 4

\* C15: the transport is called by Do() only, at most once per Do(), and
\* exactly once when no err is stored, the outgoing request is built and the
\* callback, if any, returns no error; the steps run in the order stored-error
\* check, construction, callback, transport call, none twice, and none after
\* a step that failed.
C15_SingleDispatch ==
    /\ [](transportCalls <= 1)
    /\ [][transportCalls' # transportCalls => Do]_vars
    /\ [][Do /\ handle = "req"
            => /\ transportCalls' = transportCalls
                    + (IF /\ Constructs(req)
                          /\ CallbackErr(req.prepareCB) = NilErr
                       THEN 1 ELSE 0)
               /\ (transportCalls' > transportCalls) = sent'.made
               /\ (transportCalls' > transportCalls) = (answered' # "none")
               /\ \A i, j \in 1..Len(doSteps') :
                     i < j => StepRank(doSteps'[i]) < StepRank(doSteps'[j])
               /\ doSteps'[1] = "firstError"
               /\ req.err # NilErr => doSteps' = << "firstError" >>
               /\ req.err = NilErr /\ ~Constructs(req)
                    => doSteps' = << "firstError", "construct" >>
               /\ Constructs(req) /\ CallbackErr(req.prepareCB) # NilErr
                    => doSteps' = << "firstError", "construct", "callback" >>
               /\ transportCalls' > transportCalls
                    => doSteps'[Len(doSteps')] = "transport"]_vars

\* C15 witness: Do() ran all four steps once and the transport answered.
C15_Witness ==
    /\ res.made
    /\ transportCalls = 1
    /\ cbCalls = 1
    /\ answered = "resp"
    /\ sent.made
    /\ doSteps = << "firstError", "construct", "callback", "transport" >>

\* C16: after any chain of successful WithRequestBody and EncodeJSON calls the
\* Request holds the body of the last of them, and that is the body Do()
\* dispatches.
C16_LastBodyWins ==
    /\ handle = "req" /\ req.err = NilErr => req.reqbody = lastBody
    /\ sent.made => sent.Body = lastBody

\* C16 witness: Do() dispatched the text body that a second body-shaping call
\* had put in the place of an earlier body.
C16_Witness ==
    /\ sent.made
    /\ bodySets = 2
    /\ lastBody = BodyOf(TextBody)
    /\ sent.Body = BodyOf(TextBody)
    /\ answered = "resp"

FactoryStep == GET \/ HEAD \/ POST \/ PUT \/ PATCH \/ DELETE \/ NewRequestCall

\* C17: a Client built without a transport holds none until its first
\* request-creating call; after any such call it holds a default transport,
\* which is assigned once and stays the same instance over further calls.
C17_LazyInitialization ==
    /\ [](handle = "none" => ci = Constructed /\ lazyInits = 0)
    /\ [](handle # "none" => ci # "nil" /\ req.ci = ci)
    /\ [](lazyInits <= 1)
    /\ [](Constructed = "nil" /\ handle # "none"
            => ci = DefaultTransport(1) /\ lazyInits = 1)
    /\ [][FactoryStep
            => /\ ci = "nil" => ci' = DefaultTransport(1) /\ lazyInits' = 1
               /\ ci # "nil" => ci' = ci /\ lazyInits' = lazyInits
               /\ req'.ci = ci']_vars
    /\ [][ci' # ci \/ lazyInits' # lazyInits => FactoryStep /\ ci = "nil"]_vars

\* C17 witness: a chain on a Client built without a transport was dispatched
\* through the default transport, assigned once.
C17_Witness ==
    /\ Constructed = "nil"
    /\ ci = DefaultTransport(1)
    /\ lazyInits = 1
    /\ req.ci = DefaultTransport(1)
    /\ transportCalls = 1

\* The goroutines whose request-creating call has returned.
Returned == { t \in Threads : threads[t].pc = "done" }

\* C18: the test and the assignment of lazyInitialize are not one step. On a
\* Client built with a transport no goroutine assigns anything and every
\* Request is bound to that transport; Requests bound to different transports,
\* and a second assignment, arise only on a Client built without one, where
\* every goroutine that found the field nil assigns an instance of its own.
C18_UnsynchronisedLazyInit ==
    /\ lazyInits <= NumThreads
    /\ lazyInits = Cardinality({ t \in Threads : threads[t].assigned > 0 })
    /\ \A t \in Threads :
          /\ threads[t].assigned > 0 => threads[t].sawNil
          /\ threads[t].pc \in {"assigned", "done"} /\ threads[t].sawNil
               => threads[t].assigned > 0
    /\ Constructed = "mock"
          => /\ lazyInits = 0
             /\ \A t \in Threads : ~threads[t].sawNil
             /\ \A t \in Returned : threads[t].req.ci = "mock"
    /\ \A t, u \in Returned :
          threads[t].req.ci # threads[u].req.ci
              => Constructed = "nil" /\ lazyInits >= 1

\* C18 witness: two goroutines both found the field nil, both assigned, and
\* their Requests are bound to different instances.
C18_Witness ==
    /\ Constructed = "nil"
    /\ lazyInits = 2
    /\ threads[1].pc = "done" /\ threads[2].pc = "done"
    /\ threads[1].sawNil /\ threads[2].sawNil
    /\ threads[1].req.ci = DefaultTransport(1)
    /\ threads[2].req.ci = DefaultTransport(2)

\* Every factory builds its Request with the method it is named after, and
\* NewRequest with the method it is given.
FactoryMethods ==
    /\ [][GET => req'.method = MethodGet]_vars
    /\ [][HEAD => req'.method = MethodHead]_vars
    /\ [][POST => req'.method = MethodPost]_vars
    /\ [][PUT => req'.method = MethodPut]_vars
    /\ [][PATCH => req'.method = MethodPatch]_vars
    /\ [][DELETE => req'.method = MethodDelete]_vars
    /\ [][\A m \in CallerMethods, u \in URLs :
            NewRequest(m, u) => req'.method = m]_vars
    /\ [][BuilderStep \/ Do \/ TerminalStep => req'.method = req.method]_vars

\* C19, as stated: the outgoing request Do() hands to the transport carries
\* exactly the method string the Request was created with, for the six
\* factories and for NewRequest with any method string.
C19_MethodCarried ==
    /\ FactoryMethods
    /\ [](sent.made => sent.Method = req.method)

\* C19, amended: the outgoing request carries exactly the method string the
\* Request was created with when that string is not empty; a Request created
\* with the empty method string is dispatched as GET.
C19_MethodCarriedUnlessEmpty ==
    /\ FactoryMethods
    /\ [](sent.made /\ req.method # EmptyMethod => sent.Method = req.method)
    /\ [](sent.made /\ req.method = EmptyMethod => sent.Method = MethodGet)

\* C19 witness: the transport received a request with the caller's own method.
C19_Witness ==
    /\ sent.made
    /\ req.method = UserMethod
    /\ sent.Method = UserMethod
    /\ answered = "resp"

\* The Request a request-creating call is to return.
FreshRequest(c, method, u) ==
    [ci |-> c, err |-> NilErr, method |-> method, u |-> u,
     reqbody |-> NilBody, prepareCB |-> "nil"]

\* C20: NewRequest(method, url) returns a Request bound to the Client's
\* transport as it is after the call, with that method and URL, no body, no
\* callback and no err; GET, HEAD, POST, PUT, PATCH and DELETE return what
\* NewRequest with their verb returns.
C20_NewRequestState ==
    /\ [][\A m \in Verbs \cup CallerMethods, u \in URLs :
            NewRequest(m, u)
                => /\ handle' = "req"
                   /\ ci' # "nil"
                   /\ req' = FreshRequest(ci', m, u)]_vars
    /\ [][GET => \E u \in URLs : req' = FreshRequest(ci', MethodGet, u)]_vars
    /\ [][HEAD => \E u \in URLs : req' = FreshRequest(ci', MethodHead, u)]_vars
    /\ [][POST => \E u \in URLs : req' = FreshRequest(ci', MethodPost, u)]_vars
    /\ [][PUT => \E u \in URLs : req' = FreshRequest(ci', MethodPut, u)]_vars
    /\ [][PATCH => \E u \in URLs : req' = FreshRequest(ci', MethodPatch, u)]_vars
    /\ [][DELETE => \E u \in URLs : req' = FreshRequest(ci', MethodDelete, u)]_vars

\* C20 witness: PATCH(url) on a Client built with a transport returned a
\* Request bound to it, with no body, callback or err.
C20_Witness ==
    /\ handle = "req"
    /\ ~res.made
    /\ ci = "mock"
    /\ req = FreshRequest("mock", MethodPatch, GoodURL)
    /\ bodySets = 0

\* Whether an error value holds a non-nil *Error.
HoldsError(o) == IF o = NilErr THEN FALSE ELSE o[1].kind = "Error"

\* C22: e.Is(o) is true exactly when o is a non-nil *Error whose StatusCode
\* equals e's, whatever the two messages; it is false for the nil error, for a
\* nil *Error and for an error of another type.
C22_IsMatches ==
    calc.op = "Is"
        => /\ calc.holds
                = (HoldsError(calc.o) /\ calc.o[1].StatusCode = calc.e[1].StatusCode)
           /\ ~HoldsError(calc.o) => ~calc.holds
           /\ calc.o \in {NilErr, NilTypedError} => ~calc.holds

\* C22 witness: ErrNotFound matched a 404 *Error with another message.
C22_Witness ==
    /\ calc.op = "Is"
    /\ calc.e = ErrNotFound
    /\ calc.o = NewError(StatusNotFound, TestMessage)
    /\ calc.holds

\* C23: e.HasStatusCode(code) is true exactly when e.StatusCode is code, so
\* for a non-nil *Error o, e.Is(o) is e.HasStatusCode(o.StatusCode).
C23_HasStatusCode ==
    /\ calc.op = "HasStatusCode" => calc.holds = (calc.e[1].StatusCode = calc.code)
    /\ calc.op = "Is" /\ HoldsError(calc.o)
          => calc.holds = HasStatusCode(calc.e, calc.o[1].StatusCode)

\* C23 witness: an *Error of code 404 was asked for 409 and said no.
C23_Witness ==
    /\ calc.op = "HasStatusCode"
    /\ calc.e[1].StatusCode = StatusNotFound
    /\ calc.code = StatusConflict
    /\ ~calc.holds

\* C24: New and Newf return a new *Error with the receiver's StatusCode and
\* the new message; the receiver and every catalogue instance are as they
\* were, and the receiver matches the result.
C24_NewLeavesReceiver ==
    calc.op \in {"New", "Newf"}
        => /\ calc.out \in 1..Len(calc.heap)
           /\ calc.out # calc.recv
           /\ calc.out > Len(InitHeap)
           /\ calc.heap[calc.recv] = calc.e
           /\ \A i \in 1..Len(Catalogue) : calc.heap[i] = Catalogue[i]
           /\ HoldsError(calc.heap[calc.out])
           /\ calc.heap[calc.out][1].StatusCode = calc.e[1].StatusCode
           /\ Is(calc.heap[calc.recv], calc.heap[calc.out])
           /\ calc.op = "New" => calc.heap[calc.out][1].Message = calc.message
           /\ calc.op = "Newf"
                => /\ calc.heap[calc.out][1].Message
                        = Msg(Sprintf(calc.format, calc.args))
                   /\ /\ calc.format = << "test format ", "%d", " ", "%s" >>
                      /\ calc.args = << IntArg(1), StringArg("x") >>
                      => calc.heap[calc.out][1].Message = << "test format 1 x" >>
                   /\ /\ calc.format = << "plain" >>
                      /\ calc.args = << IntArg(1), StringArg("x") >>
                      => calc.heap[calc.out][1].Message
                            = << "plain%!(EXTRA int=1, string=x)" >>

\* C24 witness: ErrNotFound.Newf("test format %d %s", 1, "x") returned a new
\* 404 *Error with the formatted message, and ErrNotFound is as it was.
C24_Witness ==
    /\ calc.op = "Newf"
    /\ calc.e = ErrNotFound
    /\ calc.heap[calc.recv] = ErrNotFound
    /\ calc.out # calc.recv
    /\ calc.heap[calc.out] = NewError(StatusNotFound, << "test format 1 x" >>)

\* The codes and reason phrases the catalogue is to hold, in its order.
CatalogueEntries ==
    << << 400, "Bad Request" >>, << 401, "Unauthorized" >>, << 403, "Forbidden" >>,
       << 404, "Not Found" >>, << 409, "Conflict" >>,
       << 500, "Internal Server Error" >>, << 503, "Service Unavailable" >>,
       << 501, "Not Implemented" >> >>

\* C25: the catalogue holds eight *Errors, of codes 400, 401, 403, 404, 409,
\* 500, 503 and 501, each with the reason phrase of its code as message; the
\* codes differ pairwise, so one catalogue error matches another only when
\* they are the same entry.
C25_Catalogue ==
    /\ Len(Catalogue) = 8
    /\ \A i \in 1..Len(Catalogue) :
          /\ Len(Catalogue[i]) = 1
          /\ Catalogue[i][1].kind = "Error"
          /\ Catalogue[i][1].StatusCode = CatalogueEntries[i][1]
          /\ Catalogue[i][1].Message = << CatalogueEntries[i][2] >>
    /\ \A i, j \in 1..Len(Catalogue) :
          /\ i # j => Catalogue[i][1].StatusCode # Catalogue[j][1].StatusCode
          /\ Is(Catalogue[i], Catalogue[j]) = (i = j)
          /\ calc.op = "Is" /\ calc.e = Catalogue[i] /\ calc.o = Catalogue[j]
               => calc.holds = (i = j)

\* C25 witness: ErrNotFound was asked whether it matches ErrConflict and said no.
C25_Witness ==
    /\ calc.op = "Is"
    /\ calc.e = ErrNotFound
    /\ calc.o = ErrConflict
    /\ ~calc.holds

\* C21: when EncodeJSON fails to encode its value on a Request without error,
\* err becomes an error that names the method and the URL and wraps the
\* encoder's error, and the body is as it was before the call, present or
\* absent.
C21_EncodeFailureKeepsBody ==
    [][ handle = "req" /\ req.err = NilErr /\ req'.err # NilErr
          => /\ Len(req'.err) > 1
             /\ req'.err[1].kind = "failed to encode body"
             /\ req'.err[1].method = req.method
             /\ req'.err[1].url = URLString(req.u)
             /\ SubSeq(req'.err, 2, Len(req'.err)) = EncodeErr(Unencodable)
             /\ Cause(req'.err) = LeafErr("errUnencodable")
             /\ req'.reqbody = req.reqbody
             /\ req' = [req EXCEPT !.err = req'.err]
             /\ handle' = "req" ]_vars

\* C21 witness: a Request whose EncodeJSON failed still holds the body that
\* WithRequestBody gave it.
C21_Witness ==
    /\ handle = "req"
    /\ ~res.made
    /\ req.err = Wrapf("failed to encode body", req.method, URLString(req.u),
                      EncodeErr(Unencodable))
    /\ req.reqbody = BodyOf(<< "text payload" >>)

\* C28: once err is set on a Request it is the same in every later state of
\* that Request: no builder call, a failing EncodeJSON included, and no Do()
\* replaces or clears it, and Do() hands it over as it is.
C28_FirstErrorSticks ==
    /\ [][handle # "none" /\ req.err # NilErr /\ ~FactoryStep
            => req'.err = req.err]_vars
    /\ [][EncodeJSON /\ handle = "req" /\ req.err # NilErr => req' = req]_vars
    /\ [][Do /\ handle = "req" /\ req.err # NilErr => res'.err = req.err]_vars

\* C28 witness: Do() ran on a Request whose EncodeJSON had failed, and the
\* Request still holds that error.
C28_Witness ==
    /\ res.made
    /\ doSteps = << "firstError" >>
    /\ req.err = Wrapf("failed to encode body", req.method, URLString(req.u),
                      EncodeErr(Unencodable))
    /\ res.err = req.err

\* C29: when the prepare callback returns an error during Do(), the
\* transport is not called, and Do() returns a Result without response whose
\* err wraps the callback's error and names the method and the URL.
C29_CallbackErrorStopsDo ==
    res.made /\ Constructs(req) /\ req.prepareCB = "fail"
        => /\ transportCalls = 0
           /\ sent = NoSent
           /\ answered = "none"
           /\ ~res.response
           /\ resp = NoResponse
           /\ cbCalls = 1
           /\ doSteps = << "firstError", "construct", "callback" >>
           /\ Len(res.err) = 2
           /\ res.err[1].kind = "failed to execute the prepare callback"
           /\ res.err[1].method = req.method
           /\ res.err[1].url = URLString(req.u)
           /\ Cause(res.err) = LeafErr("callback error")

\* C29 witness: Do() returned after the callback failed on a POST request.
C29_Witness ==
    /\ res.made
    /\ req.method = MethodPost
    /\ req.prepareCB = "fail"
    /\ cbCalls = 1
    /\ transportCalls = 0
    /\ Cause(res.err) = LeafErr("callback error")

\* C30: when http.NewRequest fails in Do(), neither the prepare callback nor
\* the transport is called, Do() returns a Result without response and with
\* the wrapped error, and the construction is tried once.
C30_ConstructionFailureStopsDo ==
    res.made /\ req.err = NilErr /\ ~Constructs(req)
        => /\ cbCalls = 0
           /\ cbSeen = NoSent
           /\ transportCalls = 0
           /\ sent = NoSent
           /\ answered = "none"
           /\ ~res.response
           /\ resp = NoResponse
           /\ doSteps = << "firstError", "construct" >>
           /\ Cardinality(StepsAt(doSteps, "construct")) = 1
           /\ Len(res.err) = 2
           /\ res.err[1].kind = "failed to prepare request"
           /\ res.err[1].method = req.method
           /\ res.err[1].url = URLString(req.u)
           /\ Cause(res.err) = newHTTPRequestErr(req.method, URLString(req.u))
           /\ Cause(res.err) # NilErr

\* C30 witness: Do() returned on a URL that does not parse, with a callback
\* stored that was not called.
C30_Witness ==
    /\ res.made
    /\ req.err = NilErr
    /\ req.u = BadURL
    /\ req.prepareCB = "fail"
    /\ cbCalls = 0
    /\ transportCalls = 0
    /\ Cause(res.err) = LeafErr("url.Parse")

\* A response of status 200 whose unread, readable body is the body that was
\* dispatched.
EchoedBack ==
    /\ res.response
    /\ resp.StatusCode = StatusOK
    /\ resp.Body.pos = 0
    /\ resp.Body.failAt < 0
    /\ sent.made
    /\ resp.Body.data = sent.Body.data

\* The values EncodeJSON encodes without error.
Encodable == { v \in EncodeValues : EncodeErr(v) = NilErr }

\* DecodeJSON into a destination, on the echo of a request whose body the
\* last body-shaping call, EncodeJSON(v), set.
RoundTripOf(v) ==
    /\ lastBody = BodyOf(EncodeBuf(v))
    /\ EchoedBack
    /\ ~ret'.nilDest
    /\ DecodeJSONCall

\* C26, as stated: for every value v that EncodeJSON encodes, EncodeJSON(v),
\* Do() against a transport that answers 200 with the dispatched body, and
\* DecodeJSON return no error and make the destination equal to v.
C26_RoundTripEveryValue ==
    [][\A v \in Encodable :
          RoundTripOf(v) => ret'.err = NilErr /\ ret'.response /\ dest' = v]_vars

\* C26, amended: the round trip returns no error for every value of the
\* payload type that EncodeJSON encodes; the destination equals v when v's
\* string is valid UTF-8, and holds the replacement character U+FFFD in place
\* of a byte of v's string that is not.
C26_JSONRoundTrip ==
    [][\A v \in Encodable :
          RoundTripOf(v)
          => /\ ret'.err = NilErr
             /\ ret'.response
             /\ dest'.Val1 = v.Val1
             /\ ValidUTF8(v.Val2) => dest' = v
             /\ ~ValidUTF8(v.Val2) => dest'.Val2 = ReplacementChar /\ dest' # v]_vars

\* C26 witness: {Val1: 1, Val2: "a"} came back from the echo of its encoding.
C26_Witness ==
    /\ ret.op = "DecodeJSON"
    /\ ret.err = NilErr
    /\ lastBody = BodyOf(EncodeBuf(Payload(1, "a")))
    /\ sent.Body.data = << "{", "\"Val1\"", ":", "1", ",", "\"Val2\"", ":", "\"a\"", "}", "\n" >>
    /\ resp.Body.data = sent.Body.data
    /\ resp.StatusCode = StatusOK
    /\ dest = Payload(1, "a")

\* C27, as stated: when the status is below 400 and the body is not
\* well-formed JSON, DecodeJSON into a destination returns an error and
\* leaves the destination as it was.
C27_MalformedRejected ==
    [][/\ DecodeJSONCall
       /\ ~ret'.nilDest
       /\ res.response
       /\ resp.StatusCode < StatusBadRequest
       /\ ~WellFormed(ReadAllData(resp.Body))
       => /\ ret'.err # NilErr
          /\ dest' = dest]_vars

\* C27, amended: when the status is below 400 and the body does not begin
\* with a complete JSON value (it is empty, it ends inside its first value, or
\* that value has a syntax error), DecodeJSON into a destination returns an
\* error that wraps the decoder's and leaves the destination as it was; a
\* complete value with other bytes behind it is decoded without error.
C27_IncompleteRejected ==
    /\ [][/\ DecodeJSONCall
          /\ ~ret'.nilDest
          /\ res.response
          /\ resp.StatusCode < StatusBadRequest
          /\ ~FirstValueComplete(ReadAllData(resp.Body))
          => /\ ret'.err # NilErr
             /\ ret'.err[1].kind = "failed to decode the response body"
             /\ Len(ret'.err) = 2
             /\ dest' = dest]_vars
    /\ [][/\ DecodeJSONCall
          /\ ~ret'.nilDest
          /\ res.response
          /\ resp.StatusCode < StatusBadRequest
          /\ resp.Body.failAt < 0
          /\ resp.Body.pos = 0
          /\ resp.Body.data = TrailingJSONBody
          => /\ ret'.err = NilErr
             /\ dest' = Payload(1, "a")]_vars

\* C27 witness: DecodeJSON failed on the body {"a": 1 of a 200 response, and
\* the destination is still the zero value.
C27_Witness ==
    /\ ret.op = "DecodeJSON"
    /\ ~ret.nilDest
    /\ resp.StatusCode = StatusOK
    /\ resp.Body.data = TruncatedJSONBody
    /\ resp.Body.failAt < 0
    /\ Cause(ret.err) = LeafErr("unexpected EOF")
    /\ dest = ZeroPayload

\* C31: the transport given to NewClient is never replaced, whatever
\* request-creating calls are made; and, one call after the other, every
\* Request is bound to the instance the Client holds after the call that
\* created it, which is the instance it held before unless it held none.
C31_TransportKept ==
    /\ [](Constructed = "mock" => ci = "mock" /\ lazyInits = 0)
    /\ [][ci # "nil" => ci' = ci]_vars
    /\ [][FactoryStep => req'.ci = ci' /\ (ci # "nil" => req'.ci = ci)]_vars
    /\ [][handle # "none" /\ FactoryStep => req'.ci = req.ci]_vars
    /\ [][~FactoryStep => req'.ci = req.ci]_vars

\* C31 witness: a request made on a Client built around the mock was
\* dispatched on a Request bound to the mock, with nothing assigned lazily.
C31_Witness ==
    /\ ci = "mock"
    /\ lazyInits = 0
    /\ handle = "req"
    /\ req.ci = "mock"
    /\ res.made
    /\ transportCalls = 1

\* C32: Do() leaves the Request as it was: method, URL, body, callback and
\* err are the same after Do() as before, so an error that arises inside Do()
\* is in the Result only; and the Result refers to the Request Do() was
\* called on.
C32_DoLeavesRequest ==
    /\ [][Do /\ handle = "req"
            => /\ req' = req
               /\ handle' = handle
               /\ res'.made
               /\ res'.request = req
               /\ req.err = NilErr => req'.err = NilErr /\ res'.request.err = NilErr
               /\ req.err # NilErr => res'.err = req.err]_vars
    /\ [](res.made => res.request = req)

\* C32 witness: the transport failed, the Result holds the wrapped error and
\* the Request it refers to holds none.
C32_Witness ==
    /\ res.made
    /\ answered = "err"
    /\ res.err # NilErr
    /\ Cause(res.err) = LeafErr("transport error")
    /\ res.request = req
    /\ req.err = NilErr
    /\ req.reqbody = BodyOf(TextBody)

\* C33: no terminal operation changes the Result's err or response; on a
\* Result with err set every terminal operation, whatever ran before it,
\* returns that err and neither a response nor bytes, and touches neither the
\* response body, the writer nor the destination.
C33_TerminalsKeepResult ==
    /\ [][TerminalStep => res' = res]_vars
    /\ [][TerminalStep /\ res.err # NilErr
            => /\ ret'.err = res.err
               /\ ~ret'.response
               /\ ret'.bytes = NilBody
               /\ resp' = resp
               /\ sink' = sink
               /\ dest' = dest
               /\ ~panicked']_vars
    /\ [](res.err # NilErr /\ ret.op # "none"
            => ret.err = res.err /\ ~ret.response /\ ret.bytes = NilBody)

\* C33 witness: DecodeJSON returned the error of a Result whose transport call
\* had failed.
C33_Witness ==
    /\ answered = "err"
    /\ res.err # NilErr
    /\ ~res.response
    /\ ret.op = "DecodeJSON"
    /\ ret.err = res.err
    /\ ~ret.response
    /\ dest = ZeroPayload

\* C34: RawBytes, StreamResponse and DecodeJSON return the response whenever
\* the Result holds one, also next to the typed error of a status of 400 or
\* more, the error of a nil destination, and a failed read, copy or decode;
\* they return none only when the Result's err is set or it has no response.
C34_ResponseReturned ==
    /\ [][ReadingStep /\ ~panicked'
            => ret'.response = (res.err = NilErr /\ res.response)]_vars
    /\ [][ReadingStep /\ res.response => ret'.response /\ ~panicked']_vars
    /\ [](ret.op \in {"RawBytes", "StreamResponse", "DecodeJSON"}
            => ret.response = (res.err = NilErr /\ res.response))

\* C34 witness: RawBytes returned the response next to the error of a failed
\* read of the body.
C34_Witness ==
    /\ ret.op = "RawBytes"
    /\ res.response
    /\ resp.StatusCode = StatusOK
    /\ resp.Body.failAt >= 0
    /\ ret.err # NilErr
    /\ Cause(ret.err) = LeafErr("body read error")
    /\ ret.response

\* C35: after a terminal operation returns on a Result with a response, the
\* body is closed or the response is in the caller's hands; an operation that
\* returns no response has closed the body.
C35_BodyOwned ==
    [][TerminalStep /\ res.response => resp'.Body.closed \/ ret'.response]_vars

\* C36: when the status is 400 or more and reading the body fails, every
\* terminal operation returns a typed error with the response's status code
\* whose message is a text that describes the failed read and names the
\* method and the URL; the error of the read is not returned, nor is it part
\* of the returned error's chain.
C36_ReadFailureMessage ==
    [][/\ TerminalStep
       /\ res.response
       /\ resp.StatusCode >= StatusBadRequest
       /\ ReadAllErr(resp.Body) # NilErr
       => /\ Len(ret'.err) = 1
          /\ ret'.err[1].kind = "Error"
          /\ ret'.err[1].StatusCode = resp.StatusCode
          /\ ret'.err[1].Message
                = << "Failed to read response body for '" \o req.method \o " "
                     \o URLString(req.u) \o "': body read error" >>
          /\ Is(NewError(resp.StatusCode, << >>), ret'.err)
          /\ ret'.err # ReadAllErr(resp.Body)
          /\ Cause(ret'.err) # ReadAllErr(resp.Body)]_vars

\* C36 witness: RawBytes on a 400 response whose body could not be read
\* returned the typed error 400 with the text about the failed read.
C36_Witness ==
    /\ ret.op = "RawBytes"
    /\ res.response
    /\ resp.StatusCode = StatusBadRequest
    /\ resp.Body.failAt >= 0
    /\ req.method = MethodGet
    /\ req.u = GoodURL
    /\ ret.err = NewError(StatusBadRequest,
                          << "Failed to read response body for 'GET http://test.test.test/x': body read error" >>)

====
